---- MODULE Spec2Model ----
(***************************************************************************)
(* A model of the AlphaForge core engines.                                 *)
(*                                                                         *)
(*   SpecBook  the OrderBook of crates/model/src/orderbook.rs              *)
(*   SpecExec  the ExecutionEngine of crates/core/src/execution_engine.rs, *)
(*             its calls running one after another                         *)
(*   SpecConc  the same engine with handle_fill and cancel_order running   *)
(*             on several threads, one lock section per step               *)
(*   SpecCache a GenericCache of crates/core/src/generic_cache.rs under    *)
(*             any sequence of its calls, the system clock advancing       *)
(*   SpecBars  a BarAggregator of crates/core/src/data_engine.rs fed trade *)
(*             ticks                                                       *)
(*   SpecData  the DataEngine of crates/core/src/data_engine.rs            *)
(*   SpecPubSub   the publish/subscribe half of the MessageBus of          *)
(*                crates/core/src/message.rs                               *)
(*   SpecReqResp  the request/response half of the same bus                *)
(*   SpecStrategy the StrategyEngine of crates/core/src/strategy_engine.rs *)
(*   SpecTyped    the Cache of crates/core/src/cache.rs                    *)
(*   SpecPrice    the Price and Quantity of crates/model/src/orderbook.rs, *)
(*                on integers of IntBits bits                              *)
(*   SpecIds      OrderId::new of crates/core/src/identifiers.rs called    *)
(*                from several threads                                     *)
(*   SpecRing     a BarAggregator fed enough ticks to fill its ring of     *)
(*                completed bars                                           *)
(*                                                                         *)
(* Option<T> is a sequence of length at most one: None is <<>> and Some(x) *)
(* is <<x>>.  Prices, quantities and commissions are integers (units of    *)
(* the smallest increment).                                                *)
(***************************************************************************)
EXTENDS Integers, Sequences, FiniteSets, TLC

VARIABLES
    \* ---- OrderBook (orderbook.rs:153-164) ----
    bids,               \* BTreeMap<Price, VecDeque<BookOrder>>, in key order
    asks,               \* BTreeMap<Price, VecDeque<BookOrder>>, in key order
    sequence,           \* u64
    ts_last,            \* UnixNanos
    count,              \* usize
    best_bid_price,     \* Option<Price>
    best_ask_price,     \* Option<Price>
    book_last,          \* the last OrderBook call and what it returned
    \* ---- ExecutionEngine (execution_engine.rs:274-291) ----
    order_cache,        \* GenericCache<Order>: config, data and stats
    active_orders,      \* HashMap<OrderId, Order>
    strategy_orders,    \* HashMap<StrategyId, Vec<OrderId>>
    exchange_adapters,  \* the names of the registered adapters
    routing_config,     \* HashMap<InstrumentId, String>
    stats,              \* ExecutionStats
    clock,              \* AtomicTime
    \* ---- MessageBus (message_bus.rs:8-13) ----
    subscribers,        \* HashMap<String, Vec<UnboundedSender>>: per topic,
                        \* what has been sent on each sender
    message_count,      \* AtomicU64
    \* ---- the engine's environment ----
    spawned,            \* adapter submit tasks spawned and not yet finished
    exec_last,          \* the last engine call and what it returned
    exec_calls,         \* the number of engine calls made
    threads,            \* the calls in progress on the threads of SpecConc
    \* ---- GenericCache (generic_cache.rs:92-96) and the system clock ----
    wall,               \* SystemTime::now(), in seconds since the epoch
    generic_cache,      \* GenericCache<T>: config, data and stats
    cache_last,         \* the last GenericCache call and what it returned
    cache_calls,        \* the number of GenericCache calls made
    \* ---- BarAggregator (data_engine.rs:60-65) ----
    aggregator,         \* bar_type, current_bar, completed_bars, last_close
    agg_out,            \* what the last update_with_trade returned, and the
                        \* ticks folded into the bar it returned
    agg_open,           \* the ticks folded into the open bar
    agg_fed,            \* the number of ticks fed
    bars_emitted,       \* every bar update_with_trade returned, in order
    \* ---- DataEngine (data_engine.rs:216-236) ----
    data_config,        \* DataEngineConfig
    tick_cache,         \* GenericCache<TradeTick>
    quote_cache,        \* GenericCache<QuoteTick>
    bar_cache,          \* GenericCache<Bar>
    bar_aggregators,    \* HashMap<BarType, BarAggregator>
    data_stats,         \* DataEngineStatistics
    is_running,         \* bool
    processed_count,    \* u64
    data_last,          \* the last DataEngine call and what it returned
    data_calls,         \* the number of DataEngine calls made
    \* ---- pattern MessageBus (message.rs:73-85) and its channels ----
    pub_sub_subs,       \* DashMap<String, Vec<UnboundedSender>>, by channel
    channels,           \* the channels made by subscribe
    published,          \* the publish calls made, in order
    req_resp_handlers,  \* DashMap<String, UnboundedSender>, by handler channel
    handlers,           \* the channels made by register_handler
    requests,           \* the request calls made and their oneshot channels
    bus_stats,          \* MessageBusStats
    pattern_last,       \* the last pattern bus call and what it returned
    \* ---- StrategyEngine (strategy_engine.rs:217-228) ----
    strategies,         \* HashMap<StrategyId, (Box<dyn Strategy>,
                        \* StrategyContext)>: the context's state and instruments
    strategy_engine_running,    \* StrategyEngine::is_running
    total_strategies,   \* usize
    active_strategies,  \* usize
    strategy_last,      \* the last StrategyEngine call, the callbacks it made
    strategy_calls,     \* the number of start, stop and process_* calls made
    \* ---- typed Cache (cache.rs:92-113) ----
    max_items,          \* CacheConfig::max_items_per_type
    cache_index,        \* CacheIndex: instruments_by_symbol, instruments_by_venue
    cache_instruments,  \* AHashMap<InstrumentId, InstrumentAny>
    quotes,             \* AHashMap<InstrumentId, VecDeque<QuoteTick>>
    typed_stats,        \* CacheStats
    quotes_added,       \* per instrument, the ticks added since the last clear
    typed_calls,        \* the number of typed cache calls made
    typed_last,         \* the last typed cache call and what it returned
    \* ---- Price (orderbook.rs:13-76) ----
    price_a,            \* Option<Price>: the Price obtained last, its raw value
    price_b,            \* Option<Price>: the Price obtained before it
    price_last,         \* the last Price operation and what it returned
    price_ops,          \* the number of Price operations applied
    quantity_last,      \* the outcome of the latest Quantity::new
    \* ---- OrderId (identifiers.rs:172-187) ----
    order_id_counter,   \* static COUNTER: AtomicU64
    order_id_fetched,   \* thread -> the id its call in progress has fetched
    order_ids_allocated, \* the ids in the order of their fetch_add
    order_ids_returned  \* the [thread, id] of the calls that returned, in order

bookVars == <<bids, asks, sequence, ts_last, count, best_bid_price,
              best_ask_price, book_last>>

engineVars == <<order_cache, active_orders, strategy_orders, exchange_adapters,
                routing_config, stats, clock>>

busVars == <<subscribers, message_count>>

execVars == <<engineVars, busVars, spawned, exec_last, exec_calls, threads>>

cacheVars == <<wall, generic_cache, cache_last, cache_calls>>

barVars == <<aggregator, agg_out, agg_open, agg_fed, bars_emitted>>

dataEngineVars == <<data_config, tick_cache, quote_cache, bar_cache,
                    bar_aggregators, data_stats, is_running, processed_count>>

dataVars == <<dataEngineVars, data_last, data_calls>>

patternVars == <<pub_sub_subs, channels, published, req_resp_handlers,
                 handlers, requests, bus_stats, pattern_last>>

strategyVars == <<strategies, strategy_engine_running, total_strategies,
                  active_strategies, strategy_last, strategy_calls>>

typedVars == <<max_items, cache_index, cache_instruments, quotes, typed_stats,
               quotes_added, typed_calls, typed_last>>

priceVars == <<price_a, price_b, price_last, price_ops, quantity_last>>

idVars == <<order_id_counter, order_id_fetched, order_ids_allocated,
           order_ids_returned>>

vars == <<bookVars, execVars, cacheVars, barVars, dataVars, patternVars,
          strategyVars, typedVars, priceVars, idVars>>

\* what an order book call leaves alone, what an engine step leaves alone and
\* what a call on the generic cache leaves alone
outsideBook == <<execVars, cacheVars, barVars, dataVars, patternVars,
                 strategyVars, typedVars, priceVars, idVars>>

outsideExec == <<bookVars, cacheVars, barVars, dataVars, patternVars,
                 strategyVars, typedVars, priceVars, idVars>>

outsideCache == <<bookVars, execVars, barVars, dataVars, patternVars,
                  strategyVars, typedVars, priceVars, idVars>>

outsideBars == <<bookVars, execVars, cacheVars, dataVars, patternVars,
                 strategyVars, typedVars, priceVars, idVars>>

outsideData == <<bookVars, execVars, cacheVars, barVars, patternVars,
                 strategyVars, typedVars, priceVars, idVars>>

outsidePattern == <<bookVars, execVars, cacheVars, barVars, dataVars,
                    strategyVars, typedVars, priceVars, idVars>>

outsideStrategy == <<bookVars, execVars, cacheVars, barVars, dataVars,
                     patternVars, typedVars, priceVars, idVars>>

outsideTyped == <<bookVars, execVars, cacheVars, barVars, dataVars,
                  patternVars, strategyVars, priceVars, idVars>>

outsidePrice == <<bookVars, execVars, cacheVars, barVars, dataVars,
                  patternVars, strategyVars, typedVars, idVars>>

outsideIds == <<bookVars, execVars, cacheVars, barVars, dataVars,
                patternVars, strategyVars, typedVars, priceVars>>

None == <<>>
Some(x) == <<x>>

(***************************************************************************)
(* Bounds of the order book model.                                         *)
(***************************************************************************)
MaxPrice == 2           \* prices are 1..MaxPrice
MaxBookOrderId == 2     \* book order ids are 1..MaxBookOrderId
MaxBookCount == 3       \* add is not called on a book holding this many orders
MaxSequence == 1        \* clear is not called once sequence has reached this

Prices == 1..MaxPrice
BookOrderIds == 1..MaxBookOrderId
Sides == {"Buy", "Sell"}
SeqInputs == 0..(MaxSequence - 1)
TsInputs == {1}

(***************************************************************************)
(* BTreeMap<Price, VecDeque<BookOrder>> as the sequence of its entries in  *)
(* ascending key order, which is the order keys() iterates in.             *)
(***************************************************************************)
BookOrder(side, price, size, order_id) ==
    [side |-> side, price |-> price, size |-> size, order_id |-> order_id]

Keys(m) == [i \in 1..Len(m) |-> m[i].price]

LevelIndex(m, price) ==
    IF \E i \in 1..Len(m) : m[i].price = price
    THEN CHOOSE i \in 1..Len(m) : m[i].price = price
    ELSE 0

\* entry(price).or_insert_with(VecDeque::new): the map with a level at price
EntryOrInsertAtEnd(m, price) ==
    IF LevelIndex(m, price) # 0 THEN m
    ELSE Append(m, [price |-> price, orders |-> <<>>])

EntryOrInsert(m, price) ==
    IF LevelIndex(m, price) # 0 THEN m
    ELSE LET Below(e) == e.price < price
             Above(e) == e.price > price
         IN SelectSeq(m, Below) \o <<[price |-> price, orders |-> <<>>]>>
                \o SelectSeq(m, Above)

RemoveAt(s, i) == SubSeq(s, 1, i - 1) \o SubSeq(s, i + 1, Len(s))

\* price_level.iter().position(|o| o.order_id == order_id)
Position(orders, order_id) ==
    IF \E i \in 1..Len(orders) : orders[i].order_id = order_id
    THEN CHOOSE i \in 1..Len(orders) :
            /\ orders[i].order_id = order_id
            /\ \A j \in 1..(i - 1) : orders[j].order_id # order_id
    ELSE 0

\* bids.keys().next_back().copied() / asks.keys().next().copied()
LastKeyFirst(m) == IF Len(m) = 0 THEN None ELSE Some(m[1].price)

LastKey(m) == IF Len(m) = 0 THEN None ELSE Some(m[Len(m)].price)

FirstKey(m) == IF Len(m) = 0 THEN None ELSE Some(m[1].price)

\* the level map after price_level.remove(position) and the removal of the
\* level when it became empty
LevelsAfterRemoveKeepEmpty(m, li, pos) ==
    [m EXCEPT ![li].orders = RemoveAt(m[li].orders, pos)]

LevelsAfterRemove(m, li, pos) ==
    LET rest == RemoveAt(m[li].orders, pos)
    IN IF Len(rest) = 0 THEN RemoveAt(m, li)
       ELSE [m EXCEPT ![li].orders = rest]

BookInit ==
    /\ bids = <<>>
    /\ asks = <<>>
    /\ sequence = 0
    /\ ts_last = 0
    /\ count = 0
    /\ best_bid_price = None
    /\ best_ask_price = None
    /\ book_last = "new"

\* a push at the front of the queue
PushFront(orders, order) == <<order>> \o orders

\* VecDeque::push_back
PushBack(orders, order) == Append(orders, order)

\* OrderBook::add
BookAdd(order, seq, ts_event) ==
    /\ count < MaxBookCount
    /\ LET side == order.side
           m == IF side = "Buy" THEN bids ELSE asks
           withLevel == EntryOrInsert(m, order.price)
           li == LevelIndex(withLevel, order.price)
           pushed == [withLevel EXCEPT ![li].orders = PushBack(@, order)]
           bids2 == IF side = "Buy" THEN pushed ELSE bids
           asks2 == IF side = "Sell" THEN pushed ELSE asks
       IN /\ sequence' = seq
          /\ ts_last' = ts_event
          /\ bids' = bids2
          /\ asks' = asks2
          /\ count' = count + 1
          /\ best_bid_price' = LastKey(bids2)
          /\ best_ask_price' = FirstKey(asks2)
    /\ book_last' = "add"
    /\ UNCHANGED outsideBook

\* OrderBook::remove
BookRemove(order_id, side, price) ==
    LET m == IF side = "Buy" THEN bids ELSE asks
        li == LevelIndex(m, price)
        pos == IF li = 0 THEN 0 ELSE Position(m[li].orders, order_id)
    IN /\ UNCHANGED outsideBook
       /\ IF li = 0 \/ pos = 0
          THEN \* the ? operator returns None before anything is changed
               /\ book_last' = "remove_none"
               /\ UNCHANGED <<bids, asks, sequence, ts_last, count,
                              best_bid_price, best_ask_price>>
          ELSE LET after == LevelsAfterRemove(m, li, pos)
                   bids2 == IF side = "Buy" THEN after ELSE bids
                   asks2 == IF side = "Sell" THEN after ELSE asks
               IN /\ bids' = bids2
                  /\ asks' = asks2
                  /\ count' = count - 1
                  /\ best_bid_price' = LastKey(bids2)
                  /\ best_ask_price' = FirstKey(asks2)
                  /\ book_last' = "remove_some"
                  /\ UNCHANGED <<sequence, ts_last>>

\* OrderBook::clear
BookClear(now) ==
    /\ sequence < MaxSequence
    /\ bids' = <<>>
    /\ asks' = <<>>
    /\ count' = 0
    /\ best_bid_price' = None
    /\ best_ask_price' = None
    /\ sequence' = sequence + 1
    /\ ts_last' = now
    /\ book_last' = "clear"
    /\ UNCHANGED outsideBook

BookNext ==
    \/ \E side \in Sides, price \in Prices, id \in BookOrderIds,
          seq \in SeqInputs, ts \in TsInputs :
          BookAdd(BookOrder(side, price, 1, id), seq, ts)
    \/ \E side \in Sides, price \in Prices, id \in BookOrderIds :
          BookRemove(id, side, price)
    \/ \E now \in TsInputs : BookClear(now)

(***************************************************************************)
(* The execution engine.                                                   *)
(***************************************************************************)
MaxCalls == 3           \* submit_order, cancel_order and handle_fill calls
MaxSubscribers == 1     \* subscribe calls on the bus
OrderCacheMaxSize == 10000
OrderCacheTtl == 3600

OrderIds == {1, 2}
StrategyIds == {1}
Instruments == {"ADAUSD.KRAKEN"}
Exchanges == {"KRAKEN"}
OrderQuantities == {2}
FillQuantities == {0, 1, 2}
FillPrices == {1, 2}
FillCommissions == {1}
Topics == {"orders.submitted", "orders.cancelled", "orders.filled"}

EmptyMap == <<>>

MapPut(f, k, v) == [x \in DOMAIN f \cup {k} |-> IF x = k THEN v ELSE f[x]]

MapRemove(f, k) == [x \in DOMAIN f \ {k} |-> f[x]]

\* HashMap::get as an Option
MapGet(f, k) == IF k \in DOMAIN f THEN Some(f[k]) ELSE None

(***************************************************************************)
(* f64 division, as needed for the average fill price: a quotient of two   *)
(* integers is the fraction in lowest terms, and 0.0 / 0.0 is NaN, written *)
(* [n |-> 0, d |-> 0].  Rounding of the f64 operations is not modelled.    *)
(***************************************************************************)
RECURSIVE Gcd(_, _)
Gcd(a, b) == IF b = 0 THEN a ELSE Gcd(b, a % b)

NaN == [n |-> 0, d |-> 0]

Frac(n, d) ==
    IF d = 0 THEN NaN
    ELSE IF n = 0 THEN [n |-> 0, d |-> 1]
    ELSE [n |-> n \div Gcd(n, d), d |-> d \div Gcd(n, d)]

\* (avg_price * prev_filled + price * quantity) / filled_quantity
WeightedAverage(avg_price, prev_filled, price, quantity, filled_quantity) ==
    IF avg_price = NaN THEN NaN
    ELSE Frac(avg_price.n * prev_filled + price * quantity * avg_price.d,
              avg_price.d * filled_quantity)

(***************************************************************************)
(* Order (execution_engine.rs:77-112).  side, order_type, price,           *)
(* stop_price, time_in_force, venue_order_id, created_time and tags are    *)
(* never read or written by the engine and are left out.                   *)
(***************************************************************************)
\* Order::market / Order::limit
NewOrder(order_id, strategy_id, instrument_id, quantity, now) ==
    [order_id |-> order_id, strategy_id |-> strategy_id,
     instrument_id |-> instrument_id, quantity |-> quantity,
     status |-> "Initialized", filled_quantity |-> 0, avg_fill_price |-> None,
     updated_time |-> now, commission |-> 0]

IsActive(order) == order.status \in {"Submitted", "Accepted", "PartiallyFilled"}

IsComplete(order) ==
    order.status \in {"Filled", "Cancelled", "Rejected", "Expired"}

IsFilled(order) == order.filled_quantity >= order.quantity

Fill(order_id, price, quantity, commission) ==
    [order_id |-> order_id, price |-> price, quantity |-> quantity,
     commission |-> commission]

(***************************************************************************)
(* GenericCache (generic_cache.rs).  An entry's created_at is written and  *)
(* never read; the entry is its value, expires_at and access_count.        *)
(***************************************************************************)
CacheEntry(value, ttl_seconds, now) ==
    [value |-> value,
     expires_at |-> IF ttl_seconds = None THEN None ELSE Some(now + ttl_seconds[1]),
     access_count |-> 0]

NewCache(max_size, ttl_seconds, enable_statistics) ==
    [config |-> [max_size |-> max_size, ttl_seconds |-> ttl_seconds,
                 enable_statistics |-> enable_statistics],
     data |-> EmptyMap,
     stats |-> [hits |-> 0, misses |-> 0, inserts |-> 0, evictions |-> 0]]

\* the while loop of put: any entry is removed while len >= max_size
RECURSIVE EvictWhileFull(_, _)
EvictWhileFull(data, max_size) ==
    IF Cardinality(DOMAIN data) >= max_size /\ DOMAIN data # {}
    THEN UNION {EvictWhileFull(MapRemove(data, k), max_size) : k \in DOMAIN data}
    ELSE {data}

\* GenericCache::put: the caches it can leave
CachePut(cache, key, value, now) ==
    {LET evicted == Cardinality(DOMAIN cache.data) - Cardinality(DOMAIN kept)
         was_new == key \notin DOMAIN kept
         counted == cache.config.enable_statistics
     IN [cache EXCEPT
            !.data = MapPut(kept, key, CacheEntry(value, cache.config.ttl_seconds, now)),
            !.stats.evictions = IF counted THEN @ + evicted ELSE @,
            !.stats.inserts = IF counted /\ was_new THEN @ + 1 ELSE @]
     : kept \in EvictWhileFull(cache.data, cache.config.max_size)}

\* CacheEntry::is_expired, now being SystemTime::now()
IsExpiredAtExpiry(entry, now) ==
    entry.expires_at # None /\ now >= entry.expires_at[1]

IsExpired(entry, now) ==
    entry.expires_at # None /\ now > entry.expires_at[1]

Counted(cache, n) == IF cache.config.enable_statistics THEN n ELSE 0

\* GenericCache::get: the cache it leaves and the value it returns
CacheGet(cache, key, now) ==
    IF key \in DOMAIN cache.data
    THEN IF IsExpired(cache.data[key], now)
         THEN [cache |-> [cache EXCEPT
                            !.data = MapRemove(@, key),
                            !.stats.misses = @ + Counted(cache, 1),
                            !.stats.evictions = @ + Counted(cache, 1)],
               value |-> None]
         ELSE [cache |-> [cache EXCEPT
                            !.data[key].access_count = @ + 1,
                            !.stats.hits = @ + Counted(cache, 1)],
               value |-> Some(cache.data[key].value)]
    ELSE [cache |-> [cache EXCEPT !.stats.misses = @ + Counted(cache, 1)],
          value |-> None]

\* GenericCache::contains
CacheContains(cache, key, now) ==
    key \in DOMAIN cache.data /\ ~IsExpired(cache.data[key], now)

\* GenericCache::remove: the cache it leaves; it returns whether key was there
CacheRemove(cache, key) == [cache EXCEPT !.data = MapRemove(@, key)]

\* GenericCache::clear
CacheClear(cache) ==
    [cache EXCEPT !.data = EmptyMap,
                  !.stats = IF cache.config.enable_statistics
                            THEN [hits |-> 0, misses |-> 0, inserts |-> 0, evictions |-> 0]
                            ELSE @]

\* GenericCache::size
CacheSize(cache) == Cardinality(DOMAIN cache.data)

\* OrderId's Display: the decimal digits of the id
OrderKey(order_id) == ToString(order_id)

(***************************************************************************)
(* MessageBus (message_bus.rs).  A sender is the sequence of envelopes     *)
(* sent on it; the envelope's id and timestamp are fresh values and are    *)
(* left out, its payload is the event that was serialized.                 *)
(***************************************************************************)
Envelope(topic, event) ==
    [sender |-> "execution_engine", message_type |-> topic, payload |-> event]

\* MessageBus::publish: the senders after the sends
PublishToNobody(subs, topic, event) == subs

Publish(subs, topic, event) ==
    IF topic \in DOMAIN subs
    THEN [subs EXCEPT ![topic] =
            [i \in 1..Len(@) |-> Append(@[i], Envelope(topic, event))]]
    ELSE subs

OrderSubmitted(order, timestamp) ==
    [type |-> "OrderSubmitted", order |-> order, timestamp |-> timestamp]

OrderCancelled(order_id, timestamp) ==
    [type |-> "OrderCancelled", order_id |-> order_id, timestamp |-> timestamp]

OrderFilled(order_id, fill, timestamp) ==
    [type |-> "OrderFilled", order_id |-> order_id, fill |-> fill,
     timestamp |-> timestamp]

NumSubscribers ==
    LET RECURSIVE Sum(_)
        Sum(T) == IF T = {} THEN 0
                  ELSE LET t == CHOOSE x \in T : TRUE
                       IN Len(subscribers[t]) + Sum(T \ {t})
    IN Sum(DOMAIN subscribers)

Result(op, order_id, result) ==
    [op |-> op, order_id |-> order_id, result |-> result]

ExecInit ==
    /\ order_cache = NewCache(OrderCacheMaxSize, Some(OrderCacheTtl), TRUE)
    /\ active_orders = EmptyMap
    /\ strategy_orders = EmptyMap
    /\ exchange_adapters = {}
    /\ routing_config = EmptyMap
    /\ stats = [orders_submitted |-> 0, orders_filled |-> 0,
                orders_cancelled |-> 0, orders_rejected |-> 0,
                total_fill_volume |-> 0, total_commission |-> 0]
    /\ clock = 1
    /\ subscribers = EmptyMap
    /\ message_count = 0
    /\ spawned = EmptyMap
    /\ exec_last = Result("new", 0, "Ok")
    /\ exec_calls = 0
    /\ threads = EmptyMap

\* ExecutionEngine::configure_routing
ConfigureRouting(instrument_id, exchange_name) ==
    /\ routing_config' = MapPut(routing_config, instrument_id, exchange_name)
    /\ UNCHANGED <<order_cache, active_orders, strategy_orders,
                   exchange_adapters, stats, clock, busVars, spawned,
                   exec_last, exec_calls, threads, outsideExec>>

\* ExecutionEngine::register_exchange_adapter
RegisterExchangeAdapter(name) ==
    /\ exchange_adapters' = exchange_adapters \cup {name}
    /\ UNCHANGED <<order_cache, active_orders, strategy_orders,
                   routing_config, stats, clock, busVars, spawned,
                   exec_last, exec_calls, threads, outsideExec>>

\* MessageBus::subscribe
Subscribe(topic) ==
    /\ NumSubscribers < MaxSubscribers
    /\ subscribers' =
         MapPut(subscribers, topic,
                IF topic \in DOMAIN subscribers
                THEN Append(subscribers[topic], <<>>) ELSE <<<<>>>>)
    /\ UNCHANGED <<engineVars, message_count, spawned, exec_last, exec_calls,
                   threads, outsideExec>>

\* ExecutionEngine::get_exchange_for_instrument, None for NoRoutingConfigured
GetExchangeForInstrument(instrument_id) == MapGet(routing_config, instrument_id)

\* submit_order, lines 335-337
SubmittedOrder(order, submit_time) ==
    [order EXCEPT !.status = "Submitted", !.updated_time = submit_time]

\* cancel_order marking the order Rejected
CancelledOrderAsRejected(order, cancel_time) ==
    [order EXCEPT !.status = "Rejected", !.updated_time = cancel_time]

\* cancel_order, lines 427-429
CancelledOrder(order, cancel_time) ==
    [order EXCEPT !.status = "Cancelled", !.updated_time = cancel_time]

\* handle_fill, lines 469-488
FilledOrder(order, fill, fill_time) ==
    LET prev_filled == order.filled_quantity
        filled_quantity == prev_filled + fill.quantity
        avg == IF order.avg_fill_price # None
               THEN Some(WeightedAverage(order.avg_fill_price[1], prev_filled,
                                         fill.price, fill.quantity,
                                         filled_quantity))
               ELSE Some(Frac(fill.price, 1))
        updated == [order EXCEPT !.filled_quantity = filled_quantity,
                                 !.commission = @ + fill.commission,
                                 !.updated_time = fill_time,
                                 !.avg_fill_price = avg]
    IN [updated EXCEPT !.status = IF IsFilled(updated) THEN "Filled"
                                  ELSE "PartiallyFilled"]

\* handle_fill with the completed order left in the active set
ActiveAfterFillKeepComplete(active, order) == MapPut(active, order.order_id, order)

\* handle_fill, lines 493-500
ActiveAfterFill(active, order) ==
    IF IsComplete(order) THEN MapRemove(active, order.order_id)
    ELSE MapPut(active, order.order_id, order)

\* handle_fill counting every fill as a filled order
StatsAfterFillCountAll(st, order, fill) ==
    [st EXCEPT !.orders_filled = @ + 1,
               !.total_fill_volume = @ + fill.quantity,
               !.total_commission = @ + fill.commission]

\* handle_fill, lines 502-510
StatsAfterFill(st, order, fill) ==
    [st EXCEPT !.orders_filled = IF order.status = "Filled" THEN @ + 1 ELSE @,
               !.total_fill_volume = @ + fill.quantity,
               !.total_commission = @ + fill.commission]

\* submit_order without the push on the strategy's list
StrategyOrdersUntracked(so, order) == so

\* strategy_orders.entry(strategy_id).or_insert_with(Vec::new).push(order_id)
StrategyOrdersAfterSubmit(so, order) ==
    MapPut(so, order.strategy_id,
           Append(IF order.strategy_id \in DOMAIN so THEN so[order.strategy_id]
                  ELSE <<>>, order.order_id))

\* tokio::spawn of the adapter's submit_order: one more task in flight
Spawn(tasks, order_id) ==
    MapPut(tasks, order_id,
           IF order_id \in DOMAIN tasks THEN tasks[order_id] + 1 ELSE 1)

\* ExecutionEngine::submit_order
SubmitOrder(order) ==
    /\ exec_calls < MaxCalls
    /\ LET submit_time == clock
           submitted == SubmittedOrder(order, submit_time)
           order_id == submitted.order_id
           exchange_name == GetExchangeForInstrument(submitted.instrument_id)
       IN /\ order_cache' \in CachePut(order_cache, OrderKey(order_id), submitted, wall)
          /\ active_orders' = MapPut(active_orders, order_id, submitted)
          /\ strategy_orders' = StrategyOrdersAfterSubmit(strategy_orders, submitted)
          /\ IF exchange_name = None
             THEN /\ exec_last' = Result("submit", order_id, "NoRoutingConfigured")
                  /\ UNCHANGED <<stats, busVars, spawned>>
             ELSE IF exchange_name[1] \notin exchange_adapters
             THEN /\ exec_last' = Result("submit", order_id, "ExchangeNotFound")
                  /\ UNCHANGED <<stats, busVars, spawned>>
             ELSE /\ spawned' = Spawn(spawned, order_id)
                  /\ stats' = [stats EXCEPT !.orders_submitted = @ + 1]
                  /\ subscribers' = Publish(subscribers, "orders.submitted",
                                            OrderSubmitted(submitted, submit_time))
                  /\ message_count' = message_count + 1
                  /\ exec_last' = Result("submit", order_id, "Ok")
    /\ exec_calls' = exec_calls + 1
    /\ UNCHANGED <<exchange_adapters, routing_config, clock, threads,
                   outsideExec>>

\* the spawned task of submit_order, lines 369-373: the adapter's verdict is
\* printed on failure and otherwise dropped
AdapterSubmitCompletes(order_id, ok) ==
    /\ order_id \in DOMAIN spawned
    /\ spawned' = IF spawned[order_id] = 1 THEN MapRemove(spawned, order_id)
                  ELSE MapPut(spawned, order_id, spawned[order_id] - 1)
    /\ exec_last' = Result("adapter_submit", order_id, IF ok THEN "Ok" ELSE "Err")
    /\ UNCHANGED <<engineVars, busVars, exec_calls, threads, outsideExec>>

\* cancel_order, lines 419-421: the adapter's cancel returned an error
CancelRejectedByAdapterAfterUpdate(order_id, order, cancel_time) ==
    /\ order_cache' \in CachePut(order_cache, OrderKey(order_id),
                                 CancelledOrder(order, cancel_time), wall)
    /\ exec_last' = Result("cancel", order_id, "ExchangeError")
    /\ UNCHANGED <<active_orders, stats, busVars>>

CancelRejectedByAdapter(order_id, order, cancel_time) ==
    /\ exec_last' = Result("cancel", order_id, "ExchangeError")
    /\ UNCHANGED <<order_cache, active_orders, stats, busVars>>

\* ExecutionEngine::cancel_order; adapter_ok is what the adapter's
\* cancel_order answers when it is called
CancelOrder(order_id, adapter_ok) ==
    /\ exec_calls < MaxCalls
    /\ LET cancel_time == clock
           found == MapGet(active_orders, order_id)
       IN IF found = None
          THEN /\ exec_last' = Result("cancel", order_id, "OrderNotFound")
               /\ UNCHANGED <<order_cache, active_orders, stats, busVars>>
          ELSE IF ~IsActive(found[1])
          THEN /\ exec_last' = Result("cancel", order_id, "OrderNotActive")
               /\ UNCHANGED <<order_cache, active_orders, stats, busVars>>
          ELSE LET order == found[1]
                   exchange_name == GetExchangeForInstrument(order.instrument_id)
               IN IF exchange_name = None
                  THEN /\ exec_last' = Result("cancel", order_id, "NoRoutingConfigured")
                       /\ UNCHANGED <<order_cache, active_orders, stats, busVars>>
                  ELSE IF exchange_name[1] \notin exchange_adapters
                  THEN /\ exec_last' = Result("cancel", order_id, "ExchangeNotFound")
                       /\ UNCHANGED <<order_cache, active_orders, stats, busVars>>
                  ELSE IF ~adapter_ok
                  THEN CancelRejectedByAdapter(order_id, order, cancel_time)
                  ELSE /\ order_cache' \in
                            CachePut(order_cache, OrderKey(order_id),
                                     CancelledOrder(order, cancel_time), wall)
                       /\ active_orders' = MapRemove(active_orders, order_id)
                       /\ stats' = [stats EXCEPT !.orders_cancelled = @ + 1]
                       /\ subscribers' = Publish(subscribers, "orders.cancelled",
                                                 OrderCancelled(order_id, cancel_time))
                       /\ message_count' = message_count + 1
                       /\ exec_last' = Result("cancel", order_id, "Ok")
    /\ exec_calls' = exec_calls + 1
    /\ UNCHANGED <<strategy_orders, exchange_adapters, routing_config, clock,
                   spawned, threads, outsideExec>>

\* ExecutionEngine::handle_fill
HandleFill(fill) ==
    /\ exec_calls < MaxCalls
    /\ LET fill_time == clock
           found == MapGet(active_orders, fill.order_id)
       IN IF found = None
          THEN /\ exec_last' = Result("fill", fill.order_id, "OrderNotFound")
               /\ UNCHANGED <<order_cache, active_orders, stats, busVars>>
          ELSE LET order == FilledOrder(found[1], fill, fill_time)
               IN /\ order_cache' \in
                       CachePut(order_cache, OrderKey(fill.order_id), order, wall)
                  /\ active_orders' = ActiveAfterFill(active_orders, order)
                  /\ stats' = StatsAfterFill(stats, order, fill)
                  /\ subscribers' = Publish(subscribers, "orders.filled",
                                            OrderFilled(fill.order_id, fill, fill_time))
                  /\ message_count' = message_count + 1
                  /\ exec_last' = Result("fill", fill.order_id, "Ok")
    /\ exec_calls' = exec_calls + 1
    /\ UNCHANGED <<strategy_orders, exchange_adapters, routing_config, clock,
                   spawned, threads, outsideExec>>

\* the orders callers hand to submit_order: built by Order::market or
\* Order::limit after the engine was constructed, possibly a clone of an
\* order submitted before (Order is Clone and order_id is a public field)
SubmittableOrders ==
    {NewOrder(id, sid, ins, q, 2) :
        id \in OrderIds, sid \in StrategyIds, ins \in Instruments,
        q \in OrderQuantities}

Fills ==
    {Fill(id, p, q, c) :
        id \in OrderIds, p \in FillPrices, q \in FillQuantities,
        c \in FillCommissions}

ExecNext ==
    \/ \E ins \in Instruments, ex \in Exchanges : ConfigureRouting(ins, ex)
    \/ \E ex \in Exchanges : RegisterExchangeAdapter(ex)
    \/ \E topic \in Topics : Subscribe(topic)
    \/ \E order \in SubmittableOrders : SubmitOrder(order)
    \/ \E id \in OrderIds, ok \in BOOLEAN : AdapterSubmitCompletes(id, ok)
    \/ \E id \in OrderIds, ok \in BOOLEAN : CancelOrder(id, ok)
    \/ \E fill \in Fills : HandleFill(fill)

(***************************************************************************)
(* The execution engine with its calls on several threads.  handle_fill    *)
(* and cancel_order take &self and every field is behind its own lock, so  *)
(* calls may overlap; a step is one lock section of a call (the reads and  *)
(* writes made while one guard is held), with the call's own computation   *)
(* on its cloned order folded into the step before it.                     *)
(***************************************************************************)
MaxThreads == 2         \* threads are 1..MaxThreads, one call each

Threads == 1..MaxThreads

\* the calls the threads make: fills of and cancels for the one open order
ConcOrder == SubmittedOrder(NewOrder(1, 1, "ADAUSD.KRAKEN", 2, 2), 1)

ConcFills == {Fill(1, 1, 1, 1)}

Call(op, order_id, fill, adapter_ok, pc) ==
    [op |-> op, order_id |-> order_id, fill |-> fill, adapter_ok |-> adapter_ok,
     pc |-> pc, order |-> None, result |-> "running"]

\* the engine after configure_routing, register_exchange_adapter and an
\* accepted submit_order of ConcOrder, no call running
ConcInit ==
    /\ order_cache \in CachePut(NewCache(OrderCacheMaxSize, Some(OrderCacheTtl), TRUE), OrderKey(1), ConcOrder, wall)
    /\ active_orders = MapPut(EmptyMap, 1, ConcOrder)
    /\ strategy_orders = StrategyOrdersAfterSubmit(EmptyMap, ConcOrder)
    /\ exchange_adapters = {"KRAKEN"}
    /\ routing_config = MapPut(EmptyMap, "ADAUSD.KRAKEN", "KRAKEN")
    /\ stats = [orders_submitted |-> 1, orders_filled |-> 0,
                orders_cancelled |-> 0, orders_rejected |-> 0,
                total_fill_volume |-> 0, total_commission |-> 0]
    /\ clock = 1
    /\ subscribers = EmptyMap
    /\ message_count = 1
    /\ spawned = Spawn(EmptyMap, 1)
    /\ exec_last = Result("submit", 1, "Ok")
    /\ exec_calls = 1
    /\ threads = EmptyMap

ThreadFrame ==
    UNCHANGED <<strategy_orders, exchange_adapters, routing_config, clock,
                spawned, exec_last, exec_calls, outsideExec>>

Finish(t, result) ==
    threads' = [threads EXCEPT ![t].pc = "done", ![t].result = result]

Goto(t, pc) == threads' = [threads EXCEPT ![t].pc = pc]

At(t, pc) == t \in DOMAIN threads /\ threads[t].pc = pc

\* a thread enters handle_fill
StartFill(t, fill) ==
    /\ t \notin DOMAIN threads
    /\ threads' = MapPut(threads, t, Call("fill", fill.order_id, Some(fill), TRUE, "fill_read"))
    /\ UNCHANGED <<order_cache, active_orders, stats, busVars>>
    /\ ThreadFrame

\* a thread enters cancel_order; adapter_ok is what the adapter will answer
StartCancel(t, order_id, adapter_ok) ==
    /\ t \notin DOMAIN threads
    /\ threads' = MapPut(threads, t, Call("cancel", order_id, None, adapter_ok, "cancel_read"))
    /\ UNCHANGED <<order_cache, active_orders, stats, busVars>>
    /\ ThreadFrame

\* handle_fill, lines 459-488: the read lock on active_orders, then the
\* update of the clone
FillRead(t) ==
    /\ At(t, "fill_read")
    /\ LET found == MapGet(active_orders, threads[t].order_id)
       IN IF found = None
          THEN Finish(t, "OrderNotFound")
          ELSE threads' = [threads EXCEPT
                   ![t].order = Some(FilledOrder(found[1], threads[t].fill[1], clock)),
                   ![t].pc = "fill_cache"]
    /\ UNCHANGED <<order_cache, active_orders, stats, busVars>>
    /\ ThreadFrame

\* handle_fill, line 491
FillCachePut(t) ==
    /\ At(t, "fill_cache")
    /\ order_cache' \in CachePut(order_cache, OrderKey(threads[t].order_id),
                                 threads[t].order[1], wall)
    /\ Goto(t, "fill_active")
    /\ UNCHANGED <<active_orders, stats, busVars>>
    /\ ThreadFrame

\* handle_fill, lines 493-500
FillActive(t) ==
    /\ At(t, "fill_active")
    /\ active_orders' = ActiveAfterFill(active_orders, threads[t].order[1])
    /\ Goto(t, "fill_stats")
    /\ UNCHANGED <<order_cache, stats, busVars>>
    /\ ThreadFrame

\* handle_fill, lines 502-510
FillStats(t) ==
    /\ At(t, "fill_stats")
    /\ stats' = StatsAfterFill(stats, threads[t].order[1], threads[t].fill[1])
    /\ Goto(t, "fill_publish")
    /\ UNCHANGED <<order_cache, active_orders, busVars>>
    /\ ThreadFrame

\* handle_fill, lines 512-521
FillPublish(t) ==
    /\ At(t, "fill_publish")
    /\ subscribers' = Publish(subscribers, "orders.filled",
                              OrderFilled(threads[t].order_id, threads[t].fill[1], clock))
    /\ message_count' = message_count + 1
    /\ Finish(t, "Ok")
    /\ UNCHANGED <<order_cache, active_orders, stats>>
    /\ ThreadFrame

\* cancel_order, lines 399-411
CancelRead(t) ==
    /\ At(t, "cancel_read")
    /\ LET found == MapGet(active_orders, threads[t].order_id)
       IN IF found = None THEN Finish(t, "OrderNotFound")
          ELSE IF ~IsActive(found[1]) THEN Finish(t, "OrderNotActive")
          ELSE threads' = [threads EXCEPT ![t].order = found,
                                          ![t].pc = "cancel_adapter"]
    /\ UNCHANGED <<order_cache, active_orders, stats, busVars>>
    /\ ThreadFrame

\* cancel_order, lines 413-429: routing, the adapter's answer, then the
\* update of the clone
CancelAdapter(t) ==
    /\ At(t, "cancel_adapter")
    /\ LET order == threads[t].order[1]
           exchange_name == GetExchangeForInstrument(order.instrument_id)
       IN IF exchange_name = None THEN Finish(t, "NoRoutingConfigured")
          ELSE IF exchange_name[1] \notin exchange_adapters
          THEN Finish(t, "ExchangeNotFound")
          ELSE IF ~threads[t].adapter_ok THEN Finish(t, "ExchangeError")
          ELSE threads' = [threads EXCEPT
                   ![t].order = Some(CancelledOrder(order, clock)),
                   ![t].pc = "cancel_cache"]
    /\ UNCHANGED <<order_cache, active_orders, stats, busVars>>
    /\ ThreadFrame

\* cancel_order, line 432
CancelCachePut(t) ==
    /\ At(t, "cancel_cache")
    /\ order_cache' \in CachePut(order_cache, OrderKey(threads[t].order_id),
                                 threads[t].order[1], wall)
    /\ Goto(t, "cancel_active")
    /\ UNCHANGED <<active_orders, stats, busVars>>
    /\ ThreadFrame

\* cancel_order, lines 434-438
CancelActive(t) ==
    /\ At(t, "cancel_active")
    /\ active_orders' = MapRemove(active_orders, threads[t].order_id)
    /\ Goto(t, "cancel_stats")
    /\ UNCHANGED <<order_cache, stats, busVars>>
    /\ ThreadFrame

\* cancel_order, lines 440-444
CancelStats(t) ==
    /\ At(t, "cancel_stats")
    /\ stats' = [stats EXCEPT !.orders_cancelled = @ + 1]
    /\ Goto(t, "cancel_publish")
    /\ UNCHANGED <<order_cache, active_orders, busVars>>
    /\ ThreadFrame

\* cancel_order, lines 446-454
CancelPublish(t) ==
    /\ At(t, "cancel_publish")
    /\ subscribers' = Publish(subscribers, "orders.cancelled",
                              OrderCancelled(threads[t].order_id, clock))
    /\ message_count' = message_count + 1
    /\ Finish(t, "Ok")
    /\ UNCHANGED <<order_cache, active_orders, stats>>
    /\ ThreadFrame

ConcNext ==
    \/ \E t \in Threads, fill \in ConcFills : StartFill(t, fill)
    \/ \E t \in Threads, ok \in BOOLEAN : StartCancel(t, 1, ok)
    \/ \E t \in Threads : FillRead(t)
    \/ \E t \in Threads : FillCachePut(t)
    \/ \E t \in Threads : FillActive(t)
    \/ \E t \in Threads : FillStats(t)
    \/ \E t \in Threads : FillPublish(t)
    \/ \E t \in Threads : CancelRead(t)
    \/ \E t \in Threads : CancelAdapter(t)
    \/ \E t \in Threads : CancelCachePut(t)
    \/ \E t \in Threads : CancelActive(t)
    \/ \E t \in Threads : CancelStats(t)
    \/ \E t \in Threads : CancelPublish(t)

(***************************************************************************)
(* A GenericCache under its own calls.  The configuration is any of the    *)
(* small ones; the system clock advances between calls.                    *)
(***************************************************************************)
MaxCacheSize == 2       \* max_size is 0..MaxCacheSize
MaxCacheCalls == 4      \* calls made on the generic_cache
MaxWall == 3            \* the system clock runs from 1 to MaxWall

DefaultMaxSize == 10000

CacheKeys == {"a", "b"}
CacheValues == {1, 2}
CacheTtls == {None, Some(1)}

CacheResult(op, key, value, flag) ==
    [op |-> op, key |-> key, value |-> value, flag |-> flag]

\* a generic_cache of GenericCacheConfig::default(), no call made on it
CacheDefault ==
    /\ wall = 1
    /\ generic_cache = NewCache(DefaultMaxSize, None, TRUE)
    /\ cache_last = CacheResult("new", "", None, TRUE)
    /\ cache_calls = 0

\* GenericCache::new with any configuration
CacheInit ==
    /\ wall = 1
    /\ \E max_size \in 0..MaxCacheSize, ttl_seconds \in CacheTtls,
          enable_statistics \in BOOLEAN :
          generic_cache = NewCache(max_size, ttl_seconds, enable_statistics)
    /\ cache_last = CacheResult("new", "", None, TRUE)
    /\ cache_calls = 0

\* a second passes on the system clock
WallClockTick ==
    /\ wall < MaxWall
    /\ wall' = wall + 1
    /\ UNCHANGED <<generic_cache, cache_last, cache_calls, outsideCache>>

GenericCacheGet(key) ==
    /\ cache_calls < MaxCacheCalls
    /\ LET got == CacheGet(generic_cache, key, wall)
       IN /\ generic_cache' = got.cache
          /\ cache_last' = CacheResult("get", key, got.value, got.value # None)
    /\ cache_calls' = cache_calls + 1
    /\ UNCHANGED <<wall, outsideCache>>

GenericCachePut(key, value) ==
    /\ cache_calls < MaxCacheCalls
    /\ generic_cache' \in CachePut(generic_cache, key, value, wall)
    /\ cache_last' = CacheResult("put", key, None, TRUE)
    /\ cache_calls' = cache_calls + 1
    /\ UNCHANGED <<wall, outsideCache>>

GenericCacheContains(key) ==
    /\ cache_calls < MaxCacheCalls
    /\ cache_last' = CacheResult("contains", key, None, CacheContains(generic_cache, key, wall))
    /\ cache_calls' = cache_calls + 1
    /\ UNCHANGED <<generic_cache, wall, outsideCache>>

GenericCacheRemove(key) ==
    /\ cache_calls < MaxCacheCalls
    /\ generic_cache' = CacheRemove(generic_cache, key)
    /\ cache_last' = CacheResult("remove", key, None, key \in DOMAIN generic_cache.data)
    /\ cache_calls' = cache_calls + 1
    /\ UNCHANGED <<wall, outsideCache>>

GenericCacheClear ==
    /\ cache_calls < MaxCacheCalls
    /\ generic_cache' = CacheClear(generic_cache)
    /\ cache_last' = CacheResult("clear", "", None, TRUE)
    /\ cache_calls' = cache_calls + 1
    /\ UNCHANGED <<wall, outsideCache>>

CacheNext ==
    \/ WallClockTick
    \/ \E key \in CacheKeys : GenericCacheGet(key)
    \/ \E key \in CacheKeys, value \in CacheValues : GenericCachePut(key, value)
    \/ \E key \in CacheKeys : GenericCacheContains(key)
    \/ \E key \in CacheKeys : GenericCacheRemove(key)
    \/ GenericCacheClear

(***************************************************************************)
(* BarAggregator (data_engine.rs).  A trade tick is its instrument, price, *)
(* size and ts_event, the fields the aggregator and the data engine read.  *)
(***************************************************************************)
MaxTicks == 4           \* ticks fed to the aggregator
MaxStep == 2            \* Tick(n), Volume(v), Dollar(d), Time(d): 1..MaxStep

\* the cap of completed_bars, 1000 in the source, scaled down so that a few
\* ticks fill the ring
MaxCompletedBars == 2

TickPrices == {1, 2}
TickSizes == {1, 2}
TickTimes == {1, 2}

TradeTick(instrument_id, price, size, ts_event) ==
    [instrument_id |-> instrument_id, price |-> price, size |-> size,
     ts_event |-> ts_event]

BarAggregation(kind, arg) == [kind |-> kind, arg |-> arg]

BarType(instrument_id, aggregation) ==
    [instrument_id |-> instrument_id,
     bar_spec |-> [step |-> 1, aggregation |-> aggregation]]

\* BarAggregator::new
NewAggregator(bar_type) ==
    [bar_type |-> bar_type, current_bar |-> None, completed_bars |-> <<>>,
     last_close |-> None]

Max2(a, b) == IF a >= b THEN a ELSE b
Min2(a, b) == IF a <= b THEN a ELSE b

\* update_with_trade, lines 99-104, with the low taken as a maximum
FoldTickLowAsMax(partial, tick) ==
    [partial EXCEPT !.high = Max2(@, tick.price),
                    !.low = Max2(@, tick.price),
                    !.close = tick.price,
                    !.volume = @ + tick.size,
                    !.ts_last = tick.ts_event,
                    !.tick_count = @ + 1]

\* update_with_trade, lines 99-104: the tick folded into the open bar
FoldTick(partial, tick) ==
    [partial EXCEPT !.high = Max2(@, tick.price),
                    !.low = Min2(@, tick.price),
                    !.close = tick.price,
                    !.volume = @ + tick.size,
                    !.ts_last = tick.ts_event,
                    !.tick_count = @ + 1]

\* update_with_trade, lines 111-120: the bar a tick opens
StartPartialBar(tick) ==
    [open |-> tick.price, high |-> tick.price, low |-> tick.price,
     close |-> tick.price, volume |-> tick.size, ts_start |-> tick.ts_event,
     ts_last |-> tick.ts_event, tick_count |-> 1]

\* should_close_bar: what the call can do.  In Time mode current_ts -
\* ts_start is a u64 subtraction: with current_ts < ts_start it panics in a
\* build with overflow checks and wraps to 2^64 - (ts_start - current_ts)
\* otherwise, which is at least every duration drawn here.
ShouldCloseBar(bar_type, partial, current_ts) ==
    LET agg == bar_type.bar_spec.aggregation
        verdict(b) == IF b THEN {"close"} ELSE {"keep"}
    IN CASE agg.kind = "Tick" -> verdict(partial.tick_count >= agg.arg)
         [] agg.kind = "Volume" -> verdict(partial.volume >= agg.arg)
         [] agg.kind = "Dollar" -> verdict(partial.volume * partial.close >= agg.arg)
         [] agg.kind = "Time" ->
                IF current_ts >= partial.ts_start
                THEN verdict(current_ts - partial.ts_start >= agg.arg)
                ELSE {"panic", "close"}

\* close_current_bar with the bar just pushed removed when the ring is full
PushCompletedDropNewest(completed_bars, bar) ==
    LET pushed == Append(completed_bars, bar)
    IN IF Len(pushed) > MaxCompletedBars
       THEN SubSeq(pushed, 1, Len(pushed) - 1) ELSE pushed

\* close_current_bar, lines 159-165: the push and the remove(0)
PushCompleted(completed_bars, bar) ==
    LET pushed == Append(completed_bars, bar)
    IN IF Len(pushed) > MaxCompletedBars THEN Tail(pushed) ELSE pushed

\* close_current_bar: the aggregator it leaves and the bar it returns
CloseCurrentBar(agg, ts_close) ==
    IF agg.current_bar = None THEN [aggregator |-> agg, bar |-> None]
    ELSE LET partial == agg.current_bar[1]
             bar == [bar_type |-> agg.bar_type, open |-> partial.open,
                     high |-> partial.high, low |-> partial.low,
                     close |-> partial.close, volume |-> partial.volume,
                     ts_event |-> partial.ts_last, ts_init |-> ts_close]
         IN [aggregator |->
                [agg EXCEPT !.current_bar = None,
                            !.last_close = Some(partial.close),
                            !.completed_bars = PushCompleted(@, bar)],
             bar |-> Some(bar)]

\* get_recent_bars
GetRecentBars(agg, n) ==
    LET len == Len(agg.completed_bars)
        start_idx == IF n >= len THEN 0 ELSE len - n
    IN SubSeq(agg.completed_bars, start_idx + 1, len)

\* update_with_trade: the outcomes it can have, each the aggregator it
\* leaves, the bar it returns and whether it panicked
UpdateWithTrade(agg, tick) ==
    IF agg.current_bar = None
    THEN {[aggregator |-> [agg EXCEPT !.current_bar = Some(StartPartialBar(tick))],
           bar |-> None, panicked |-> FALSE]}
    ELSE LET partial == FoldTick(agg.current_bar[1], tick)
             folded == [agg EXCEPT !.current_bar = Some(partial)]
         IN {CASE v = "close" ->
                     LET closed == CloseCurrentBar(folded, tick.ts_event)
                     IN [aggregator |-> closed.aggregator, bar |-> closed.bar,
                         panicked |-> FALSE]
               [] v = "keep" ->
                     [aggregator |-> folded, bar |-> None, panicked |-> FALSE]
               [] v = "panic" ->
                     [aggregator |-> folded, bar |-> None, panicked |-> TRUE]
             : v \in ShouldCloseBar(agg.bar_type, partial, tick.ts_event)}

(***************************************************************************)
(* A BarAggregator fed trade ticks of its instrument.                      *)
(***************************************************************************)
BarAggregations ==
    {BarAggregation(kind, arg) :
        kind \in {"Tick", "Volume", "Dollar", "Time"}, arg \in 1..MaxStep}

TradeTicks ==
    {TradeTick(ins, price, size, ts) :
        ins \in Instruments, price \in TickPrices, size \in TickSizes,
        ts \in TickTimes}

AggOut(result, bar, ticks) == [result |-> result, bar |-> bar, ticks |-> ticks]

\* an aggregator of some bar type, nothing fed
BarsIdle ==
    /\ aggregator = NewAggregator(BarType("ADAUSD.KRAKEN", BarAggregation("Tick", 1)))
    /\ agg_out = AggOut("new", None, <<>>)
    /\ agg_open = <<>>
    /\ agg_fed = 0
    /\ bars_emitted = <<>>

BarsInit ==
    /\ \E ins \in Instruments, aggregation \in BarAggregations :
          aggregator = NewAggregator(BarType(ins, aggregation))
    /\ agg_out = AggOut("new", None, <<>>)
    /\ agg_open = <<>>
    /\ agg_fed = 0
    /\ bars_emitted = <<>>

\* a call of update_with_trade on the aggregator
FeedTick(tick) ==
    /\ agg_out.result # "panic"
    /\ \E out \in UpdateWithTrade(aggregator, tick) :
          LET folded == Append(agg_open, tick)
          IN /\ aggregator' = out.aggregator
             /\ IF out.bar # None
                THEN /\ agg_out' = AggOut("bar", out.bar, folded)
                     /\ agg_open' = <<>>
                ELSE /\ agg_out' = AggOut(IF out.panicked THEN "panic" ELSE "none",
                                          None, <<>>)
                     /\ agg_open' = folded
             /\ bars_emitted' = bars_emitted \o out.bar
    /\ agg_fed' = agg_fed + 1
    /\ UNCHANGED outsideBars

BarUpdateWithTrade(tick) ==
    /\ agg_fed < MaxTicks
    /\ FeedTick(tick)

BarsNext == \E tick \in TradeTicks : BarUpdateWithTrade(tick)

(***************************************************************************)
(* A BarAggregator fed enough ticks to fill the ring of completed bars:    *)
(* one aggregator of each kind with threshold 1, ticks of size 1.          *)
(***************************************************************************)
MaxRingTicks == 7       \* ticks fed to the aggregator

RingAggregations ==
    {BarAggregation(kind, 1) : kind \in {"Tick", "Volume", "Dollar", "Time"}}

RingTicks ==
    {TradeTick(ins, price, 1, ts) :
        ins \in Instruments, price \in TickPrices, ts \in TickTimes}

RingInit ==
    /\ \E ins \in Instruments, aggregation \in RingAggregations :
          aggregator = NewAggregator(BarType(ins, aggregation))
    /\ agg_out = AggOut("new", None, <<>>)
    /\ agg_open = <<>>
    /\ agg_fed = 0
    /\ bars_emitted = <<>>

RingUpdateWithTrade(tick) ==
    /\ agg_fed < MaxRingTicks
    /\ FeedTick(tick)

RingNext == \E tick \in RingTicks : RingUpdateWithTrade(tick)

(***************************************************************************)
(* DataEngine (data_engine.rs).  The bar types registered are Tick and     *)
(* Volume ones, whose update_with_trade has a single outcome.  A quote     *)
(* tick is its instrument and ts_event, the fields the engine reads.       *)
(***************************************************************************)
MaxDataCalls == 4       \* start, stop, process_trade_tick, process_quote_tick

MaxBarsPerInstrument == 10000
DataCacheTtl == 3600

DataInstruments == {"ADAUSD.KRAKEN", "BTCUSD.BINANCE"}

DataBarTypes ==
    {BarType("ADAUSD.KRAKEN", BarAggregation("Tick", 2)),
     BarType("ADAUSD.KRAKEN", BarAggregation("Volume", 2)),
     BarType("BTCUSD.BINANCE", BarAggregation("Tick", 2))}

DataTradeTicks ==
    {TradeTick(ins, 1, 1, ts) : ins \in DataInstruments, ts \in TickTimes}

QuoteTick(instrument_id, ts_event) ==
    [instrument_id |-> instrument_id, ts_event |-> ts_event]

DataQuoteTicks == {QuoteTick("ADAUSD.KRAKEN", 1)}

\* format!("trade_{}_{}", ..), format!("quote_{}_{}", ..) and
\* format!("bar_{}_{}", ..); an instrument id displays as itself
CacheKey(prefix, instrument_id, ts) ==
    prefix \o "_" \o instrument_id \o "_" \o ToString(ts)

\* a call, the tick it was given if any, its result and the bar it returned
DataResult(op, tick, result, bar) ==
    [op |-> op, tick |-> tick, result |-> result, bar |-> bar]

\* DataEngineConfig::default() with either setting of enable_bar_aggregation
DataEngineConfig(enable_bar_aggregation) ==
    [max_bars_per_instrument |-> MaxBarsPerInstrument,
     enable_bar_aggregation |-> enable_bar_aggregation,
     enable_statistics |-> TRUE]

NewDataStatistics == [ticks_processed |-> 0, bars_generated |-> 0]

\* DataEngine::new
NewDataEngine(config) ==
    LET new_cache == NewCache(config.max_bars_per_instrument * 100,
                              Some(DataCacheTtl), config.enable_statistics)
    IN /\ data_config = config
       /\ tick_cache = new_cache
       /\ quote_cache = new_cache
       /\ bar_cache = new_cache
       /\ bar_aggregators = EmptyMap
       /\ data_stats = NewDataStatistics
       /\ is_running = FALSE
       /\ processed_count = 0
       /\ data_last = DataResult("new", None, "Ok", None)
       /\ data_calls = 0

DataIdle == NewDataEngine(DataEngineConfig(TRUE))

DataInit == \E enable \in BOOLEAN : NewDataEngine(DataEngineConfig(enable))

\* start rejects a running engine; process_*_tick reject a stopped one
StartNeverRejected == FALSE

StartRejected == is_running

TickNeverRejected == FALSE

TickRejected == ~is_running

DataStart ==
    /\ data_calls < MaxDataCalls
    /\ IF StartRejected
       THEN /\ data_last' = DataResult("start", None, "Err", None)
            /\ UNCHANGED dataEngineVars
       ELSE /\ is_running' = TRUE
            /\ processed_count' = 0
            /\ data_stats' = NewDataStatistics
            /\ data_last' = DataResult("start", None, "Ok", None)
            /\ UNCHANGED <<data_config, tick_cache, quote_cache, bar_cache,
                           bar_aggregators>>
    /\ data_calls' = data_calls + 1
    /\ UNCHANGED outsideData

DataStop ==
    /\ data_calls < MaxDataCalls
    /\ is_running' = FALSE
    /\ data_last' = DataResult("stop", None, "Ok", None)
    /\ data_calls' = data_calls + 1
    /\ UNCHANGED <<data_config, tick_cache, quote_cache, bar_cache,
                   bar_aggregators, data_stats, processed_count, outsideData>>

\* the orders in which iter_mut can visit the aggregators in S
Orderings(S) ==
    {order \in [1..Cardinality(S) -> S] :
        \A i, j \in 1..Cardinality(S) : i # j => order[i] # order[j]}

\* process_trade_tick, lines 315-322: the caches the puts of the completed
\* bars can leave
RECURSIVE PutBars(_, _, _)
PutBars(cache, bars, now) ==
    IF bars = <<>> THEN {cache}
    ELSE UNION {PutBars(c, Tail(bars), now) :
                  c \in CachePut(cache,
                                 CacheKey("bar", Head(bars).bar_type.instrument_id,
                                          Head(bars).ts_event),
                                 Head(bars), now)}

\* the bars in a sequence of Option<Bar>
RECURSIVE Completed(_)
Completed(outs) ==
    IF outs = <<>> THEN <<>>
    ELSE Head(outs) \o Completed(Tail(outs))

ProcessTradeTick(tick) ==
    /\ data_calls < MaxDataCalls
    /\ IF TickRejected
       THEN /\ data_last' = DataResult("process_trade_tick", Some(tick), "Err", None)
            /\ UNCHANGED dataEngineVars
       ELSE /\ tick_cache' \in CachePut(tick_cache,
                                         CacheKey("trade", tick.instrument_id, tick.ts_event),
                                         tick, wall)
            /\ processed_count' = processed_count + 1
            /\ IF data_config.enable_bar_aggregation
               THEN LET matching == {bt \in DOMAIN bar_aggregators :
                                        bt.instrument_id = tick.instrument_id}
                        out(bt) == CHOOSE o \in UpdateWithTrade(bar_aggregators[bt], tick) : TRUE
                    IN \E order \in Orderings(matching) :
                         LET completed_bars ==
                                 Completed([i \in 1..Len(order) |-> out(order[i]).bar])
                         IN /\ bar_aggregators' =
                                  [bt \in DOMAIN bar_aggregators |->
                                      IF bt \in matching THEN out(bt).aggregator
                                      ELSE bar_aggregators[bt]]
                            /\ bar_cache' \in PutBars(bar_cache, completed_bars, wall)
                            /\ data_stats' =
                                  [data_stats EXCEPT
                                      !.ticks_processed = @ + 1,
                                      !.bars_generated = @ + Len(completed_bars)]
                            /\ data_last' =
                                  DataResult("process_trade_tick", Some(tick), "Ok",
                                             IF completed_bars = <<>> THEN None
                                             ELSE Some(completed_bars[1]))
               ELSE /\ data_stats' = [data_stats EXCEPT !.ticks_processed = @ + 1]
                    /\ data_last' = DataResult("process_trade_tick", Some(tick), "Ok", None)
                    /\ UNCHANGED <<bar_aggregators, bar_cache>>
            /\ UNCHANGED <<data_config, quote_cache, is_running>>
    /\ data_calls' = data_calls + 1
    /\ UNCHANGED outsideData

ProcessQuoteTick(tick) ==
    /\ data_calls < MaxDataCalls
    /\ IF TickRejected
       THEN /\ data_last' = DataResult("process_quote_tick", Some(tick), "Err", None)
            /\ UNCHANGED dataEngineVars
       ELSE /\ quote_cache' \in CachePut(quote_cache,
                                          CacheKey("quote", tick.instrument_id, tick.ts_event),
                                          tick, wall)
            /\ processed_count' = processed_count + 1
            /\ data_stats' = [data_stats EXCEPT !.ticks_processed = @ + 1]
            /\ data_last' = DataResult("process_quote_tick", Some(tick), "Ok", None)
            /\ UNCHANGED <<data_config, tick_cache, bar_cache, bar_aggregators,
                           is_running>>
    /\ data_calls' = data_calls + 1
    /\ UNCHANGED outsideData

AddBarAggregator(bar_type) ==
    /\ bar_aggregators' = MapPut(bar_aggregators, bar_type, NewAggregator(bar_type))
    /\ data_last' = DataResult("add_bar_aggregator", None, "Ok", None)
    /\ UNCHANGED <<data_config, tick_cache, quote_cache, bar_cache, data_stats,
                   is_running, processed_count, data_calls, outsideData>>

RemoveBarAggregator(bar_type) ==
    /\ bar_aggregators' = MapRemove(bar_aggregators, bar_type)
    /\ data_last' = DataResult("remove_bar_aggregator", None,
                               IF bar_type \in DOMAIN bar_aggregators THEN "true" ELSE "false",
                               None)
    /\ UNCHANGED <<data_config, tick_cache, quote_cache, bar_cache, data_stats,
                   is_running, processed_count, data_calls, outsideData>>

DataNext ==
    \/ DataStart
    \/ DataStop
    \/ \E tick \in DataTradeTicks : ProcessTradeTick(tick)
    \/ \E tick \in DataQuoteTicks : ProcessQuoteTick(tick)
    \/ \E bar_type \in DataBarTypes : AddBarAggregator(bar_type)
    \/ \E bar_type \in DataBarTypes : RemoveBarAggregator(bar_type)

(***************************************************************************)
(* The pattern MessageBus (message.rs).  A channel made by subscribe is    *)
(* its queue and whether its receiver is still held; an envelope is its id *)
(* (a fresh UUID4, here the number of the envelope) and message_type.      *)
(* publish holds the DashMap entry of its topic for the whole loop and has *)
(* no await point, so it is one step.                                      *)
(***************************************************************************)
MaxChannels == 2        \* subscribe calls
MaxPublishes == 3       \* publish calls
MaxHandlers == 2        \* register_handler calls
MaxRequests == 2        \* request calls

PatternTopics == {"test.topic", "perf.test"}
PatternTargets == {"test.service", "other.service"}

MessageEnvelope(id, message_type) == [id |-> id, message_type |-> message_type]

\* mpsc::unbounded_channel(): topic and published_before record the
\* subscribe call that made the channel, received what recv has returned
NewChannel(topic, published_before) ==
    [queue |-> <<>>, alive |-> TRUE, received |-> <<>>, topic |-> topic,
     published_before |-> published_before]

PatternResult(op, key, result, msg, reply) ==
    [op |-> op, key |-> key, result |-> result, msg |-> msg, reply |-> reply]

NewBusStats == [total_messages_delivered |-> 0, publish_count |-> 0]

\* MessageBus::new
PatternInit ==
    /\ pub_sub_subs = EmptyMap
    /\ channels = <<>>
    /\ published = <<>>
    /\ req_resp_handlers = EmptyMap
    /\ handlers = <<>>
    /\ requests = <<>>
    /\ bus_stats = NewBusStats
    /\ pattern_last = PatternResult("new", "", "Ok", "", None)

\* MessageBus::subscribe
PatternSubscribe(topic) ==
    /\ Len(channels) < MaxChannels
    /\ LET id == Len(channels) + 1
           subs == IF topic \in DOMAIN pub_sub_subs THEN pub_sub_subs[topic]
                   ELSE <<>>
       IN /\ channels' = Append(channels, NewChannel(topic, Len(published)))
          /\ pub_sub_subs' = MapPut(pub_sub_subs, topic, Append(subs, id))
    /\ pattern_last' = PatternResult("subscribe", topic, "Ok", "", None)
    /\ UNCHANGED <<published, req_resp_handlers, handlers, requests, bus_stats,
                   outsidePattern>>

\* UnboundedSender::send puts the envelope first in the queue
SenderSendFirst(chan, envelope) ==
    IF chan.alive
    THEN [chan |-> [chan EXCEPT !.queue = <<envelope>> \o @], ok |-> TRUE]
    ELSE [chan |-> chan, ok |-> FALSE]

\* UnboundedSender::send reports Ok for a dropped receiver
SenderSendAlwaysOk(chan, envelope) ==
    IF chan.alive
    THEN [chan |-> [chan EXCEPT !.queue = Append(@, envelope)], ok |-> TRUE]
    ELSE [chan |-> chan, ok |-> TRUE]

\* UnboundedSender::send: Err when the receiver was dropped
SenderSend(chan, envelope) ==
    IF chan.alive
    THEN [chan |-> [chan EXCEPT !.queue = Append(@, envelope)], ok |-> TRUE]
    ELSE [chan |-> chan, ok |-> FALSE]

\* the loop of publish over the senders subs[i..], from the channels chans
RECURSIVE PublishLoop(_, _, _, _, _, _)
PublishLoop(chans, subs, i, envelope, delivered, failed) ==
    IF i > Len(subs)
    THEN [channels |-> chans, delivered |-> delivered, failed |-> failed]
    ELSE LET sent == SenderSend(chans[subs[i]], envelope)
         IN PublishLoop([chans EXCEPT ![subs[i]] = sent.chan], subs, i + 1,
                        envelope,
                        IF sent.ok THEN delivered + 1 ELSE delivered,
                        IF sent.ok THEN failed ELSE failed + 1)

\* MessageBusStats::record_publish; the elapsed time is not modelled
RecordPublish(st, delivered) ==
    [total_messages_delivered |-> st.total_messages_delivered + delivered,
     publish_count |-> st.publish_count + 1]

\* MessageBus::publish of a new envelope
PatternPublish(topic) ==
    /\ Len(published) < MaxPublishes
    /\ LET envelope == MessageEnvelope(Len(published) + 1, "TestMessage")
       IN IF topic \in DOMAIN pub_sub_subs
          THEN LET out == PublishLoop(channels, pub_sub_subs[topic], 1,
                                      envelope, 0, 0)
               IN /\ channels' = out.channels
                  /\ bus_stats' = RecordPublish(bus_stats, out.delivered)
                  /\ published' = Append(published,
                                         [topic |-> topic, envelope |-> envelope,
                                          delivered |-> out.delivered,
                                          failed |-> out.failed])
          ELSE /\ UNCHANGED <<channels, bus_stats>>
               /\ published' = Append(published,
                                      [topic |-> topic, envelope |-> envelope,
                                       delivered |-> 0, failed |-> 0])
    /\ pattern_last' = PatternResult("publish", topic, "Ok", "", None)
    /\ UNCHANGED <<pub_sub_subs, req_resp_handlers, handlers, requests,
                   outsidePattern>>

\* UnboundedReceiver::recv on the receiver of channel id
ChannelRecv(id) ==
    /\ id \in DOMAIN channels
    /\ channels[id].alive
    /\ channels[id].queue # <<>>
    /\ channels' = [channels EXCEPT ![id].queue = Tail(@),
                                    ![id].received = Append(@, Head(channels[id].queue))]
    /\ pattern_last' = PatternResult("recv", channels[id].topic, "Ok", "", None)
    /\ UNCHANGED <<pub_sub_subs, published, req_resp_handlers, handlers,
                   requests, bus_stats, outsidePattern>>

\* the receiver of channel id is dropped, and what is queued with it
ChannelDrop(id) ==
    /\ id \in DOMAIN channels
    /\ channels[id].alive
    /\ channels' = [channels EXCEPT ![id].alive = FALSE, ![id].queue = <<>>]
    /\ pattern_last' = PatternResult("drop", channels[id].topic, "Ok", "", None)
    /\ UNCHANGED <<pub_sub_subs, published, req_resp_handlers, handlers,
                   requests, bus_stats, outsidePattern>>

PubSubNext ==
    \/ \E topic \in PatternTopics : PatternSubscribe(topic)
    \/ \E topic \in PatternTopics : PatternPublish(topic)
    \/ \E id \in 1..MaxChannels : ChannelRecv(id)
    \/ \E id \in 1..MaxChannels : ChannelDrop(id)

(***************************************************************************)
(* Request and response on the pattern MessageBus.  A handler channel      *)
(* carries (envelope, oneshot sender) pairs, here the numbers of the       *)
(* requests; a request records where its oneshot sender is: queued in the  *)
(* handler channel, held by the handler task, used for a reply or dropped. *)
(* request keeps the DashMap entry of its target borrowed until it         *)
(* returns, so register_handler for that target waits for it.              *)
(***************************************************************************)
NewHandler(target) ==
    [target |-> target, queue |-> <<>>, alive |-> TRUE, received |-> <<>>]

Request(target, handler, envelope, responder, outcome, msg, reply) ==
    [target |-> target, handler |-> handler, envelope |-> envelope,
     responder |-> responder, outcome |-> outcome, msg |-> msg, reply |-> reply]

Pending(r) == r \in DOMAIN requests /\ requests[r].outcome = "pending"

\* the request's future resolves
Resolve(request, outcome, msg, reply) ==
    [request EXCEPT !.outcome = outcome, !.msg = msg, !.reply = reply]

ReqFrame == UNCHANGED <<pub_sub_subs, channels, published, bus_stats,
                        outsidePattern>>

\* DashMap::insert keeps the sender already registered for the target
InsertHandlerKeepFirst(map, target, h) ==
    IF target \in DOMAIN map THEN map ELSE MapPut(map, target, h)

\* DashMap::insert replaces the sender registered for the target
InsertHandler(map, target, h) == MapPut(map, target, h)

\* MessageBus::register_handler
RegisterHandler(target) ==
    /\ Len(handlers) < MaxHandlers
    /\ ~\E r \in DOMAIN requests : Pending(r) /\ requests[r].target = target
    /\ handlers' = Append(handlers, NewHandler(target))
    /\ req_resp_handlers' = InsertHandler(req_resp_handlers, target,
                                        Len(handlers) + 1)
    /\ pattern_last' = PatternResult("register_handler", target, "Ok", "", None)
    /\ UNCHANGED requests
    /\ ReqFrame

\* MessageBus::request, up to its await
PatternRequest(target) ==
    /\ Len(requests) < MaxRequests
    /\ LET r == Len(requests) + 1
           envelope == MessageEnvelope(r, "TestRequest")
       IN IF target \notin DOMAIN req_resp_handlers
          THEN /\ requests' = Append(requests,
                      Request(target, 0, envelope, "none", "Err",
                              "No handler registered for target: " \o target, None))
               /\ pattern_last' = PatternResult("request", target, "Err",
                      "No handler registered for target: " \o target, None)
               /\ UNCHANGED handlers
          ELSE IF ~handlers[req_resp_handlers[target]].alive
          THEN /\ requests' = Append(requests,
                      Request(target, req_resp_handlers[target], envelope,
                              "dropped", "Err",
                              "No handler available for target: " \o target, None))
               /\ pattern_last' = PatternResult("request", target, "Err",
                      "No handler available for target: " \o target, None)
               /\ UNCHANGED handlers
          ELSE LET h == req_resp_handlers[target]
               IN /\ handlers' = [handlers EXCEPT ![h].queue = Append(@, r)]
                  /\ requests' = Append(requests,
                         Request(target, h, envelope, "queued", "pending", "", None))
                  /\ pattern_last' = PatternResult("request", target, "pending",
                                                   "", None)
    /\ UNCHANGED req_resp_handlers
    /\ ReqFrame

\* the handler task receives the next request of handler channel h
HandlerRecv(h) ==
    /\ h \in DOMAIN handlers
    /\ handlers[h].alive
    /\ handlers[h].queue # <<>>
    /\ LET r == Head(handlers[h].queue)
       IN /\ handlers' = [handlers EXCEPT ![h].queue = Tail(@),
                                          ![h].received = Append(@, r)]
          /\ requests' = [requests EXCEPT ![r].responder = "held"]
    /\ pattern_last' = PatternResult("handler_recv", handlers[h].target, "Ok",
                                     "", None)
    /\ UNCHANGED req_resp_handlers
    /\ ReqFrame

\* the handler task sends its reply on the oneshot of request r; the send
\* fails, unnoticed, when the request has returned already
HandlerReply(r) ==
    /\ r \in DOMAIN requests
    /\ requests[r].responder = "held"
    /\ LET reply == MessageEnvelope(MaxRequests + r, "TestResponse")
           sent == [requests[r] EXCEPT !.responder = "used"]
       IN IF Pending(r)
          THEN /\ requests' = [requests EXCEPT
                                  ![r] = Resolve(sent, "Ok", "", Some(reply))]
               /\ pattern_last' = PatternResult("request", requests[r].target,
                                                "Ok", "", Some(reply))
          ELSE /\ requests' = [requests EXCEPT ![r] = sent]
               /\ pattern_last' = PatternResult("reply", requests[r].target,
                                                "Err", "", None)
    /\ UNCHANGED <<req_resp_handlers, handlers>>
    /\ ReqFrame

\* the handler task drops the oneshot sender of request r without a reply
HandlerDropResponder(r) ==
    /\ r \in DOMAIN requests
    /\ requests[r].responder = "held"
    /\ LET dropped == [requests[r] EXCEPT !.responder = "dropped"]
       IN IF Pending(r)
          THEN /\ requests' = [requests EXCEPT ![r] =
                      Resolve(dropped, "Err", "Response channel closed", None)]
               /\ pattern_last' = PatternResult("request", requests[r].target,
                      "Err", "Response channel closed", None)
          ELSE /\ requests' = [requests EXCEPT ![r] = dropped]
               /\ pattern_last' = PatternResult("drop_responder",
                      requests[r].target, "Ok", "", None)
    /\ UNCHANGED <<req_resp_handlers, handlers>>
    /\ ReqFrame

\* the receiver of handler channel h is dropped, and with it the requests
\* still queued and their oneshot senders
HandlerDrop(h) ==
    /\ h \in DOMAIN handlers
    /\ handlers[h].alive
    /\ LET queued == {handlers[h].queue[i] : i \in 1..Len(handlers[h].queue)}
       IN requests' = [r \in DOMAIN requests |->
             IF r \notin queued THEN requests[r]
             ELSE IF Pending(r)
                  THEN Resolve([requests[r] EXCEPT !.responder = "dropped"],
                               "Err", "Response channel closed", None)
                  ELSE [requests[r] EXCEPT !.responder = "dropped"]]
    /\ handlers' = [handlers EXCEPT ![h].alive = FALSE, ![h].queue = <<>>]
    /\ pattern_last' = PatternResult("drop_handler", handlers[h].target, "Ok",
                                     "", None)
    /\ UNCHANGED req_resp_handlers
    /\ ReqFrame

\* tokio::time::timeout elapses on request r
RequestTimeout(r) ==
    /\ Pending(r)
    /\ requests' = [requests EXCEPT ![r] =
                       Resolve(requests[r], "Err", "Request timeout", None)]
    /\ pattern_last' = PatternResult("request", requests[r].target, "Err",
                                     "Request timeout", None)
    /\ UNCHANGED <<req_resp_handlers, handlers>>
    /\ ReqFrame

ReqRespNext ==
    \/ \E target \in PatternTargets : RegisterHandler(target)
    \/ \E target \in PatternTargets : PatternRequest(target)
    \/ \E h \in 1..MaxHandlers : HandlerRecv(h)
    \/ \E r \in 1..MaxRequests : HandlerReply(r)
    \/ \E r \in 1..MaxRequests : HandlerDropResponder(r)
    \/ \E h \in 1..MaxHandlers : HandlerDrop(h)
    \/ \E r \in 1..MaxRequests : RequestTimeout(r)

(***************************************************************************)
(* StrategyEngine (strategy_engine.rs).  A registered strategy is its      *)
(* context's state and config.instruments; what its callbacks return is    *)
(* chosen by the strategy, so every call takes the set of strategies whose *)
(* callback fails in it.  The loops visit the HashMap in any order.        *)
(***************************************************************************)
MaxStrategies == 2      \* strategy ids are 1..MaxStrategies
MaxStrategyCalls == 3   \* start, stop and process_* calls

StrategyEngineIds == 1..MaxStrategies
StrategyInstruments == {"ADAUSD.KRAKEN", "BTCUSD.KRAKEN"}

StrategyContext(instruments) ==
    [state |-> "Initialized", instruments |-> instruments]

\* StrategyContext::is_active
IsActiveContext(context) == context.state = "Running"

StrategyResult(op, instrument_id, failing, invoked, result) ==
    [op |-> op, instrument_id |-> instrument_id, failing |-> failing,
     invoked |-> invoked, result |-> result]

\* StrategyEngine::new
StrategyInit ==
    /\ strategies = EmptyMap
    /\ strategy_engine_running = FALSE
    /\ total_strategies = 0
    /\ active_strategies = 0
    /\ strategy_last = StrategyResult("new", "", {}, <<>>, "Ok")
    /\ strategy_calls = 0

\* StrategyEngine::add_strategy
AddStrategy(strategy_id, instruments) ==
    /\ IF strategy_id \in DOMAIN strategies
       THEN /\ strategy_last' = StrategyResult("add_strategy", "", {}, <<>>, "Err")
            /\ UNCHANGED <<strategies, total_strategies>>
       ELSE /\ strategies' = MapPut(strategies, strategy_id,
                                    StrategyContext(instruments))
            /\ total_strategies' = total_strategies + 1
            /\ strategy_last' = StrategyResult("add_strategy", "", {}, <<>>, "Ok")
    /\ UNCHANGED <<strategy_engine_running, active_strategies, strategy_calls,
                   outsideStrategy>>

\* a loop `for (_, (strategy, context)) in &mut self.strategies` whose body
\* calls the callback of the eligible strategies with `?`: the strategies
\* called, in order, and what the loop returns
RECURSIVE CallbackLoop(_, _, _, _)
CallbackLoop(order, eligible, failing, invoked) ==
    IF order = <<>> THEN [invoked |-> invoked, result |-> "Ok"]
    ELSE IF Head(order) \notin eligible
    THEN CallbackLoop(Tail(order), eligible, failing, invoked)
    ELSE IF Head(order) \in failing
    THEN [invoked |-> Append(invoked, Head(order)), result |-> "Err"]
    ELSE CallbackLoop(Tail(order), eligible, failing,
                      Append(invoked, Head(order)))

SeqRange(s) == {s[i] : i \in 1..Len(s)}

\* context.set_state(state) on the strategies the loop reached
SetStates(invoked, state) ==
    [id \in DOMAIN strategies |->
        IF id \in SeqRange(invoked)
        THEN [strategies[id] EXCEPT !.state = state]
        ELSE strategies[id]]

\* the callbacks that fail in a call, and the iteration orders of the map
Failing == SUBSET DOMAIN strategies

IterationOrders == Orderings(DOMAIN strategies)

\* StrategyEngine::start
StrategyStart ==
    \E failing \in Failing, order \in IterationOrders :
    /\ strategy_calls < MaxStrategyCalls
    /\ IF strategy_engine_running
       THEN /\ strategy_last' = StrategyResult("start", "", {}, <<>>, "Err")
            /\ UNCHANGED <<strategies, strategy_engine_running,
                           active_strategies>>
       ELSE LET out == CallbackLoop(order, DOMAIN strategies, failing, <<>>)
            IN /\ strategies' = SetStates(out.invoked, "Running")
               /\ strategy_last' = StrategyResult("start", "", failing,
                                                  out.invoked, out.result)
               /\ IF out.result = "Ok"
                  THEN /\ strategy_engine_running' = TRUE
                       /\ active_strategies' = Cardinality(DOMAIN strategies)
                  ELSE UNCHANGED <<strategy_engine_running, active_strategies>>
    /\ strategy_calls' = strategy_calls + 1
    /\ UNCHANGED <<total_strategies, outsideStrategy>>

\* StrategyEngine::stop
StrategyStop ==
    \E failing \in Failing, order \in IterationOrders :
    /\ strategy_calls < MaxStrategyCalls
    /\ IF ~strategy_engine_running
       THEN /\ strategy_last' = StrategyResult("stop", "", {}, <<>>, "Ok")
            /\ UNCHANGED <<strategies, strategy_engine_running,
                           active_strategies>>
       ELSE LET out == CallbackLoop(order, DOMAIN strategies, failing, <<>>)
            IN /\ strategies' = SetStates(out.invoked, "Stopped")
               /\ strategy_last' = StrategyResult("stop", "", failing,
                                                  out.invoked, out.result)
               /\ IF out.result = "Ok"
                  THEN /\ strategy_engine_running' = FALSE
                       /\ active_strategies' = 0
                  ELSE UNCHANGED <<strategy_engine_running, active_strategies>>
    /\ strategy_calls' = strategy_calls + 1
    /\ UNCHANGED <<total_strategies, outsideStrategy>>

\* the strategies process_trade_tick and process_quote_tick call
TickEligible(instrument_id) ==
    {id \in DOMAIN strategies :
        /\ IsActiveContext(strategies[id])
        /\ instrument_id \in strategies[id].instruments}

\* the strategies process_bar and process_timer call
ActiveEligible == {id \in DOMAIN strategies : IsActiveContext(strategies[id])}

\* the body shared by the four dispatchers
Dispatch(op, instrument_id, eligible) ==
    \E failing \in Failing, order \in IterationOrders :
    /\ strategy_calls < MaxStrategyCalls
    /\ IF ~strategy_engine_running
       THEN strategy_last' = StrategyResult(op, instrument_id, {}, <<>>, "Ok")
       ELSE LET out == CallbackLoop(order, eligible, failing, <<>>)
            IN strategy_last' = StrategyResult(op, instrument_id, failing,
                                               out.invoked, out.result)
    /\ strategy_calls' = strategy_calls + 1
    /\ UNCHANGED <<strategies, strategy_engine_running, total_strategies,
                   active_strategies, outsideStrategy>>

\* StrategyEngine::process_trade_tick
StrategyProcessTradeTick(instrument_id) ==
    Dispatch("process_trade_tick", instrument_id, TickEligible(instrument_id))

\* StrategyEngine::process_quote_tick
StrategyProcessQuoteTick(instrument_id) ==
    Dispatch("process_quote_tick", instrument_id, TickEligible(instrument_id))

\* StrategyEngine::process_bar
StrategyProcessBar(instrument_id) ==
    Dispatch("process_bar", instrument_id, ActiveEligible)

\* StrategyEngine::process_timer
StrategyProcessTimer ==
    Dispatch("process_timer", "", ActiveEligible)

StrategyNext ==
    \/ \E id \in StrategyEngineIds, instruments \in SUBSET StrategyInstruments :
          AddStrategy(id, instruments)
    \/ StrategyStart
    \/ StrategyStop
    \/ \E instrument_id \in StrategyInstruments :
          StrategyProcessTradeTick(instrument_id)
    \/ \E instrument_id \in StrategyInstruments :
          StrategyProcessQuoteTick(instrument_id)
    \/ \E instrument_id \in StrategyInstruments :
          StrategyProcessBar(instrument_id)
    \/ StrategyProcessTimer

(***************************************************************************)
(* The typed Cache (cache.rs): the quote deques, the instrument map and    *)
(* its index.  Every call takes the write lock of what it changes for the  *)
(* whole change.  InstrumentAny is a placeholder in the source: its id()   *)
(* is InstrumentId 1 and its symbol() and venue() are "PLACEHOLDER".       *)
(***************************************************************************)
MaxItemsPerType == 2    \* CacheConfig::max_items_per_type is 0..MaxItemsPerType
MaxTypedCalls == 4      \* calls on the typed cache
MaxLimit == 2           \* get_quotes limits are None and Some(0..MaxLimit)

PlaceholderId == 1

InstrumentAny == [id |-> PlaceholderId, symbol |-> "PLACEHOLDER",
                  venue |-> "PLACEHOLDER"]

QuoteInstruments == {1, 2}
QuoteTimes == {1, 2}
QuoteLimits == {None} \cup {Some(k) : k \in 0..MaxLimit}

NewCacheIndex == [instruments_by_symbol |-> EmptyMap,
                  instruments_by_venue |-> EmptyMap]

NewCacheStats == [hits |-> 0, misses |-> 0, evictions |-> 0, writes |-> 0]

TypedResult(op, instrument_id, limit, result) ==
    [op |-> op, instrument_id |-> instrument_id, limit |-> limit,
     result |-> result]

\* Cache::new(config)
NewTypedCache(max_items_per_type) ==
    /\ max_items = max_items_per_type
    /\ cache_index = NewCacheIndex
    /\ cache_instruments = EmptyMap
    /\ quotes = EmptyMap
    /\ typed_stats = NewCacheStats
    /\ quotes_added = EmptyMap
    /\ typed_calls = 0
    /\ typed_last = TypedResult("new", 0, None, <<>>)

TypedIdle == NewTypedCache(MaxItemsPerType)

TypedInit == \E m \in 0..MaxItemsPerType : NewTypedCache(m)

\* quotes.entry(instrument_id).or_insert_with(VecDeque::new)
EntryOrEmpty(map, key) == IF key \in DOMAIN map THEN map[key] ELSE <<>>

\* the eviction of add_quote_tick drops the tick just pushed
EvictNewest(deque, max) ==
    IF Len(deque) > max
    THEN [deque |-> SubSeq(deque, 1, Len(deque) - 1), evicted |-> 1]
    ELSE [deque |-> deque, evicted |-> 0]

\* the eviction of add_quote_tick: pop_front when the deque is too long
EvictOldest(deque, max) ==
    IF Len(deque) > max
    THEN [deque |-> Tail(deque), evicted |-> 1]
    ELSE [deque |-> deque, evicted |-> 0]

\* Cache::add_quote_tick
AddQuoteTick(tick) ==
    /\ typed_calls < MaxTypedCalls
    /\ LET pushed == Append(EntryOrEmpty(quotes, tick.instrument_id), tick)
           out == EvictOldest(pushed, max_items)
       IN /\ quotes' = MapPut(quotes, tick.instrument_id, out.deque)
          /\ typed_stats' = [typed_stats EXCEPT
                                !.evictions = @ + out.evicted,
                                !.writes = @ + 1]
    /\ quotes_added' = MapPut(quotes_added, tick.instrument_id,
                              Append(EntryOrEmpty(quotes_added,
                                                  tick.instrument_id), tick))
    /\ typed_last' = TypedResult("add_quote_tick", tick.instrument_id, None,
                                 <<>>)
    /\ typed_calls' = typed_calls + 1
    /\ UNCHANGED <<max_items, cache_index, cache_instruments, outsideTyped>>

Reverse(s) == [i \in 1..Len(s) |-> s[Len(s) + 1 - i]]

\* Iterator::take
Take(s, n) == SubSeq(s, 1, IF n < Len(s) THEN n ELSE Len(s))

\* Cache::get_quotes
GetQuotes(instrument_id, limit) ==
    /\ typed_calls < MaxTypedCalls
    /\ IF instrument_id \in DOMAIN quotes
       THEN LET quote_deque == quotes[instrument_id]
                n == IF limit = None THEN Len(quote_deque) ELSE limit[1]
            IN /\ typed_last' = TypedResult("get_quotes", instrument_id, limit,
                                            Take(Reverse(quote_deque), n))
               /\ typed_stats' = [typed_stats EXCEPT !.hits = @ + 1]
       ELSE /\ typed_last' = TypedResult("get_quotes", instrument_id, limit,
                                         <<>>)
            /\ typed_stats' = [typed_stats EXCEPT !.misses = @ + 1]
    /\ typed_calls' = typed_calls + 1
    /\ UNCHANGED <<max_items, cache_index, cache_instruments, quotes,
                   quotes_added, outsideTyped>>

\* Cache::add_instrument
AddInstrument(instrument) ==
    /\ typed_calls < MaxTypedCalls
    /\ cache_instruments' = MapPut(cache_instruments, instrument.id, instrument)
    /\ cache_index' =
          [instruments_by_symbol |->
              MapPut(cache_index.instruments_by_symbol, instrument.symbol,
                     instrument.id),
           instruments_by_venue |->
              MapPut(cache_index.instruments_by_venue, instrument.venue,
                     Append(EntryOrEmpty(cache_index.instruments_by_venue,
                                         instrument.venue),
                            instrument.id))]
    /\ typed_stats' = [typed_stats EXCEPT !.writes = @ + 1]
    /\ typed_calls' = typed_calls + 1
    /\ typed_last' = TypedResult("add_instrument", instrument.id, None, <<>>)
    /\ UNCHANGED <<max_items, quotes, quotes_added, outsideTyped>>

\* Cache::clear
TypedClear ==
    /\ typed_calls < MaxTypedCalls
    /\ cache_instruments' = EmptyMap
    /\ quotes' = EmptyMap
    /\ cache_index' = NewCacheIndex
    /\ quotes_added' = EmptyMap
    /\ typed_calls' = typed_calls + 1
    /\ typed_last' = TypedResult("clear", 0, None, <<>>)
    /\ UNCHANGED <<max_items, typed_stats, outsideTyped>>

TypedNext ==
    \/ \E instrument_id \in QuoteInstruments, ts_event \in QuoteTimes :
          AddQuoteTick(QuoteTick(instrument_id, ts_event))
    \/ \E instrument_id \in QuoteInstruments, limit \in QuoteLimits :
          GetQuotes(instrument_id, limit)
    \/ AddInstrument(InstrumentAny)
    \/ TypedClear

(***************************************************************************)
(* Price (orderbook.rs:13-76), a transparent wrapper of an i64.  The       *)
(* model's integers are IntBits wide instead of 64 and the scale is        *)
(* 10^PricePrecision instead of 10^9, so that the overflows of the source  *)
(* happen on small numbers.  An f64 factor is a fraction n/d; the rounding *)
(* of the f64 product to 53 bits is not modelled.                          *)
(***************************************************************************)
IntBits == 8            \* the width of i64 in the model
PricePrecision == 1     \* Price::PRECISION in the model
MaxPriceOps == 3        \* Price operations applied

RECURSIVE Pow(_, _)
Pow(b, n) == IF n = 0 THEN 1 ELSE b * Pow(b, n - 1)

IntMax == Pow(2, IntBits - 1) - 1
IntMin == -Pow(2, IntBits - 1)

\* two's complement wrap-around of the mathematical value v
Wrap(v) == ((v - IntMin) % Pow(2, IntBits)) + IntMin

InRange(v) == IntMin <= v /\ v <= IntMax

\* `as i64` of a float: saturating
Saturate(v) == IF v > IntMax THEN IntMax ELSE IF v < IntMin THEN IntMin ELSE v

\* f64::round of n/d, d > 0: to the nearest integer, halves away from zero
RoundDiv(n, d) ==
    IF n >= 0 THEN (2 * n + d) \div (2 * d)
    ELSE -((2 * (-n) + d) \div (2 * d))

RawInputs == {-1, 0, 1, 2, IntMax \div Pow(10, PricePrecision) + 1}
PrecisionInputs == 0..(PricePrecision + 1)
Factors == {[n |-> -1, d |-> 1], [n |-> 0, d |-> 1], [n |-> 1, d |-> 2],
            [n |-> 2, d |-> 1], [n |-> IntMax, d |-> 1]}

PriceResult(op, outcome, value, exact) ==
    [op |-> op, outcome |-> outcome, value |-> value, exact |-> exact]

\* Price::new: the outcomes the builds can produce.  The multiplication
\* panics on overflow when overflow checks are on and wraps when they are
\* off.
PriceNew(raw, precision) ==
    IF precision > PricePrecision
    THEN {PriceResult("new", "Err", 0, raw)}
    ELSE IF raw <= 0
    THEN {PriceResult("new", "Err", 0, raw)}
    ELSE LET adjusted == raw * Pow(10, PricePrecision - precision)
         IN IF InRange(adjusted)
            THEN {PriceResult("new", "Ok", adjusted, adjusted)}
            ELSE {PriceResult("new", "panic", 0, adjusted),
                  PriceResult("new", "Ok", Wrap(adjusted), adjusted)}

\* i64::checked_add(..).map(Self)
CheckedAdd(a, b) ==
    IF InRange(a + b) THEN PriceResult("checked_add", "Some", a + b, a + b)
    ELSE PriceResult("checked_add", "None", 0, a + b)

\* i64::checked_sub(..).map(Self)
CheckedSub(a, b) ==
    IF InRange(a - b) THEN PriceResult("checked_sub", "Some", a - b, a - b)
    ELSE PriceResult("checked_sub", "None", 0, a - b)

\* Price::checked_mul_f64
CheckedMulF64(a, factor) ==
    LET exact == RoundDiv(a * factor.n, factor.d)
        result == Saturate(exact)
    IN IF result > 0 /\ result <= IntMax
       THEN PriceResult("checked_mul_f64", "Some", result, exact)
       ELSE PriceResult("checked_mul_f64", "None", 0, exact)

\* Quantity (orderbook.rs:79-128), a transparent wrapper of a u64: IntBits
\* wide and of scale 10^QuantityPrecision in the model
QuantityPrecision == 1

UIntMax == Pow(2, IntBits) - 1

\* wrap-around of the mathematical value v in an unsigned integer
WrapUnsigned(v) == v % Pow(2, IntBits)

QuantityRawInputs == {0, 1, 2, UIntMax \div Pow(10, QuantityPrecision) + 1}
QuantityPrecisionInputs == 0..(QuantityPrecision + 1)

\* Quantity::new: the outcomes the builds can produce, as for Price::new
QuantityNew(raw, precision) ==
    IF precision > QuantityPrecision
    THEN {PriceResult("new", "Err", 0, raw)}
    ELSE LET adjusted == raw * Pow(10, QuantityPrecision - precision)
         IN IF adjusted <= UIntMax
            THEN {PriceResult("new", "Ok", adjusted, adjusted)}
            ELSE {PriceResult("new", "panic", 0, adjusted),
                  PriceResult("new", "Ok", WrapUnsigned(adjusted), adjusted)}

\* no Price has been made yet
PriceInit ==
    /\ price_a = None
    /\ price_b = None
    /\ price_last = PriceResult("none", "None", 0, 0)
    /\ price_ops = 0
    /\ quantity_last = PriceResult("none", "None", 0, 0)

\* the Price an operation returned is kept in place of price_a, and the one
\* held there before moves to price_b
Keep(out) ==
    /\ price_last' = out
    /\ price_ops' = price_ops + 1
    /\ IF out.outcome \in {"Ok", "Some"}
       THEN /\ price_a' = Some(out.value)
            /\ price_b' = IF price_a = None THEN price_b ELSE price_a
       ELSE UNCHANGED <<price_a, price_b>>
    /\ UNCHANGED <<quantity_last, outsidePrice>>

PriceNewCall(raw, precision) ==
    /\ price_ops < MaxPriceOps
    /\ \E out \in PriceNew(raw, precision) : Keep(out)

PriceCheckedAdd ==
    /\ price_ops < MaxPriceOps
    /\ price_a # None /\ price_b # None
    /\ Keep(CheckedAdd(price_a[1], price_b[1]))

PriceCheckedSub ==
    /\ price_ops < MaxPriceOps
    /\ price_a # None /\ price_b # None
    /\ \/ Keep(CheckedSub(price_a[1], price_b[1]))
       \/ Keep(CheckedSub(price_b[1], price_a[1]))
       \/ Keep(CheckedSub(price_a[1], price_a[1]))

PriceCheckedMulF64(factor) ==
    /\ price_ops < MaxPriceOps
    /\ price_a # None
    /\ Keep(CheckedMulF64(price_a[1], factor))

QuantityNewCall(raw, precision) ==
    /\ price_ops < MaxPriceOps
    /\ \E out \in QuantityNew(raw, precision) : quantity_last' = out
    /\ price_ops' = price_ops + 1
    /\ UNCHANGED <<price_a, price_b, price_last, outsidePrice>>

PriceNext ==
    \/ \E raw \in RawInputs, precision \in PrecisionInputs :
          PriceNewCall(raw, precision)
    \/ \E raw \in QuantityRawInputs, precision \in QuantityPrecisionInputs :
          QuantityNewCall(raw, precision)
    \/ PriceCheckedAdd
    \/ PriceCheckedSub
    \/ \E factor \in Factors : PriceCheckedMulF64(factor)

(***************************************************************************)
(* OrderId::new (identifiers.rs:179-187): threads allocate ids from the    *)
(* process-wide atomic counter.  fetch_add is one atomic step; a call      *)
(* returns in a later step, so calls overlap.                              *)
(***************************************************************************)
MaxAllocations == 4     \* calls of OrderId::new
MaxIdThreads == 3       \* threads calling OrderId::new

IdThreads == 1..MaxIdThreads

\* static COUNTER: AtomicU64 = AtomicU64::new(1)
CounterStart == 1

IdsInit ==
    /\ order_id_counter = CounterStart
    /\ order_id_fetched = [t \in IdThreads |-> None]
    /\ order_ids_allocated = <<>>
    /\ order_ids_returned = <<>>

\* a fetch_add that stores what it read
FetchAddLost(counter, val) == counter

\* AtomicU64::fetch_add: the value stored
FetchAdd(counter, val) == counter + val

\* thread t enters OrderId::new and performs COUNTER.fetch_add(1, SeqCst),
\* which yields the previous value
OrderIdFetchAdd(t) ==
    /\ order_id_fetched[t] = None
    /\ Len(order_ids_allocated) < MaxAllocations
    /\ order_id_fetched' =
           [order_id_fetched EXCEPT ![t] = Some(order_id_counter)]
    /\ order_id_counter' = FetchAdd(order_id_counter, 1)
    /\ order_ids_allocated' = Append(order_ids_allocated, order_id_counter)
    /\ UNCHANGED <<order_ids_returned, outsideIds>>

\* thread t returns Self { id } from OrderId::new
OrderIdReturn(t) ==
    /\ order_id_fetched[t] # None
    /\ order_ids_returned' =
           Append(order_ids_returned,
                  [thread |-> t, id |-> order_id_fetched[t][1]])
    /\ order_id_fetched' = [order_id_fetched EXCEPT ![t] = None]
    /\ UNCHANGED <<order_id_counter, order_ids_allocated, outsideIds>>

IdsNext ==
    \/ \E t \in IdThreads : OrderIdFetchAdd(t)
    \/ \E t \in IdThreads : OrderIdReturn(t)

(***************************************************************************)
(* Claims about the order book.                                            *)
(***************************************************************************)
KeySet(m) == {m[i].price : i \in 1..Len(m)}

MaxOf(S) == CHOOSE x \in S : \A y \in S : y <= x

MinOf(S) == CHOOSE x \in S : \A y \in S : x <= y

RECURSIVE QueueLengths(_)
QueueLengths(m) ==
    IF Len(m) = 0 THEN 0 ELSE Len(m[1].orders) + QueueLengths(Tail(m))

StrictlyOrdered(m) ==
    /\ \A i, j \in 1..Len(m) : i < j => m[i].price < m[j].price
    /\ Cardinality(KeySet(m)) = Len(m)

NoEmptyLevel(m) == \A i \in 1..Len(m) : Len(m[i].orders) > 0

BestIsExtreme ==
    /\ best_bid_price =
          IF KeySet(bids) = {} THEN None ELSE Some(MaxOf(KeySet(bids)))
    /\ best_ask_price =
          IF KeySet(asks) = {} THEN None ELSE Some(MinOf(KeySet(asks)))

\* the orders queued at price p
OrdersAt(m, p) == IF LevelIndex(m, p) = 0 THEN <<>> ELSE m[LevelIndex(m, p)].orders

\* a step in which remove took an order from the best level of m
RemovedFromBest(m, mNext, best) ==
    /\ book_last' = "remove_some"
    /\ best # None
    /\ Len(OrdersAt(mNext, best[1])) = Len(OrdersAt(m, best[1])) - 1

BestAfterRemove(m, best, pickNext(_)) ==
    IF Len(OrdersAt(m, best[1])) > 1 THEN best
    ELSE IF KeySet(m) \ {best[1]} = {} THEN None
    ELSE Some(pickNext(KeySet(m) \ {best[1]}))

\* C2: best_bid_price() is the highest bid price present and best_ask_price()
\* the lowest ask price present, None on an empty side; a remove of one of
\* several orders of the best level leaves the best price as it was, and a
\* remove of the last order of the best level moves it to the next level or
\* to None.
C2_BestPrices ==
    /\ []BestIsExtreme
    /\ [][/\ RemovedFromBest(bids, bids', best_bid_price) =>
               best_bid_price' = BestAfterRemove(bids, best_bid_price, MaxOf)
          /\ RemovedFromBest(asks, asks', best_ask_price) =>
               best_ask_price' = BestAfterRemove(asks, best_ask_price, MinOf)
         ]_vars

\* a remove has just emptied a level above the remaining bid level, so the
\* best bid is the lower price
C2_Witness ==
    /\ book_last = "remove_some"
    /\ Len(bids) = 1
    /\ best_bid_price = Some(1)
    /\ sequence = 0
    /\ count = 1

\* the queues of book side m are those of side n but for the one at price
SameButAt(m, n, price) ==
    \A p \in Prices \ {price} : OrdersAt(m, p) = OrdersAt(n, p)

\* C36: orders added at the same side and price are queued in arrival
\* order: an add puts the order behind the ones queued at its price, and a
\* remove takes one order with the given id out of the queue and keeps the
\* others in their order; no other queue changes.
C36_ArrivalOrder ==
    [][/\ \A side \in Sides, price \in Prices, id \in BookOrderIds,
             seq \in SeqInputs, ts \in TsInputs :
            BookAdd(BookOrder(side, price, 1, id), seq, ts) =>
                LET before == IF side = "Buy" THEN bids ELSE asks
                    after == IF side = "Buy" THEN bids' ELSE asks'
                IN /\ OrdersAt(after, price) =
                          OrdersAt(before, price)
                              \o <<BookOrder(side, price, 1, id)>>
                   /\ SameButAt(after, before, price)
                   /\ IF side = "Buy" THEN asks' = asks ELSE bids' = bids
       /\ \A side \in Sides, price \in Prices, id \in BookOrderIds :
            (BookRemove(id, side, price) /\ book_last' = "remove_some") =>
                LET before == IF side = "Buy" THEN bids ELSE asks
                    after == IF side = "Buy" THEN bids' ELSE asks'
                    queue == OrdersAt(before, price)
                IN /\ \E pos \in 1..Len(queue) :
                         /\ queue[pos].order_id = id
                         /\ OrdersAt(after, price) =
                                SubSeq(queue, 1, pos - 1)
                                    \o SubSeq(queue, pos + 1, Len(queue))
                   /\ SameButAt(after, before, price)
                   /\ IF side = "Buy" THEN asks' = asks ELSE bids' = bids
      ]_vars

\* a remove has just taken a bid out of a queue, and two bids with different
\* ids are left queued at the one price
C36_Witness ==
    /\ book_last = "remove_some"
    /\ Len(bids) = 1
    /\ Len(bids[1].orders) = 2
    /\ bids[1].orders[1].order_id = 2
    /\ bids[1].orders[2].order_id = 1

(***************************************************************************)
(* Claims about the execution engine, its calls running one at a time.     *)
(***************************************************************************)
\* the orders the engine holds: the values of the order cache and of the
\* active set
HeldOrders ==
    {order_cache.data[k].value : k \in DOMAIN order_cache.data}
        \cup {active_orders[id] : id \in DOMAIN active_orders}

\* the order stored in the order cache under an order id
Stored(cache, order_id) == cache.data[OrderKey(order_id)].value

IsStored(cache, order_id) == OrderKey(order_id) \in DOMAIN cache.data

\* this step is a call of op naming order_id
Called(op, order_id) ==
    /\ exec_calls' = exec_calls + 1
    /\ exec_last'.op = op
    /\ exec_last'.order_id = order_id

\* C3: in every reachable state get_active_orders_count() is orders_submitted
\* - orders_filled - orders_cancelled - orders_rejected.
C3_ActiveCount ==
    Cardinality(DOMAIN active_orders) =
        stats.orders_submitted - stats.orders_filled - stats.orders_cancelled
            - stats.orders_rejected

\* C4: every order the engine holds has 0 <= filled_quantity <= quantity
\* (FillQuantities has no negative quantity).
C4_FilledWithinQuantity ==
    \A order \in HeldOrders :
        0 <= order.filled_quantity /\ order.filled_quantity <= order.quantity

\* C5: every order the engine holds has an avg_fill_price exactly when its
\* filled_quantity is positive.
C5_AvgPriceIffFilled ==
    \A order \in HeldOrders :
        (order.avg_fill_price # None) <=> (order.filled_quantity > 0)

\* C6: once the stored status of an order is Filled, Cancelled, Rejected or
\* Expired, a call that names the order is rejected, and no step changes the
\* stored record.
C6_TerminalIsFinal ==
    [][\A id \in OrderIds :
          (IsStored(order_cache, id) /\ IsComplete(Stored(order_cache, id))) =>
              /\ IsStored(order_cache', id)
              /\ Stored(order_cache', id) = Stored(order_cache, id)
              /\ \A op \in {"submit", "cancel", "fill"} :
                    Called(op, id) => exec_last'.result # "Ok"
      ]_vars

\* the order ids that were handed to submit_order at some time
EverSubmitted ==
    UNION {{strategy_orders[sid][i] : i \in 1..Len(strategy_orders[sid])} :
              sid \in DOMAIN strategy_orders}

\* C7: cancel_order of an id that was never submitted fails with
\* OrderNotFound; cancel_order of an order that is complete fails with
\* OrderNotActive.
C7_CancelErrors ==
    [][\A id \in OrderIds :
          Called("cancel", id) =>
              /\ id \notin EverSubmitted =>
                    exec_last'.result = "OrderNotFound"
              /\ (IsStored(order_cache, id) /\ IsComplete(Stored(order_cache, id))) =>
                    exec_last'.result = "OrderNotActive"
      ]_vars

\* C8: a cancel_order whose adapter call fails returns ExchangeError and
\* leaves the order, the order cache, the active set and the counters as
\* they were, and publishes nothing.
C8_FailedCancelChangesNothing ==
    [][\A id \in OrderIds :
          (Called("cancel", id) /\ exec_last'.result = "ExchangeError") =>
              UNCHANGED <<order_cache, active_orders, strategy_orders, stats,
                          subscribers, message_count>>
      ]_vars

\* a cancel has just failed in the adapter, for an active order, with a
\* subscriber listening on orders.cancelled
C8_Witness ==
    /\ exec_last.op = "cancel"
    /\ exec_last.result = "ExchangeError"
    /\ exec_last.order_id \in DOMAIN active_orders
    /\ active_orders[exec_last.order_id].status = "PartiallyFilled"
    /\ "orders.cancelled" \in DOMAIN subscribers

\* this step sent exactly one envelope to each subscriber of topic, carrying
\* an OrderSubmitted event for order_id, and nothing to anyone else
PublishedOneSubmitted(topic, order_id) ==
    /\ message_count' = message_count + 1
    /\ DOMAIN subscribers' = DOMAIN subscribers
    /\ \A t \in DOMAIN subscribers :
          /\ Len(subscribers'[t]) = Len(subscribers[t])
          /\ \A i \in 1..Len(subscribers[t]) :
                LET before == subscribers[t][i]
                    after == subscribers'[t][i]
                IN IF t = topic
                   THEN /\ Len(after) = Len(before) + 1
                        /\ SubSeq(after, 1, Len(before)) = before
                        /\ after[Len(after)].message_type = topic
                        /\ after[Len(after)].payload.type = "OrderSubmitted"
                        /\ after[Len(after)].payload.order.order_id = order_id
                   ELSE after = before

\* C10 as claimed: every submit_order call publishes exactly one
\* OrderSubmitted event on orders.submitted for the submitted order.
C10_EverySubmitPublishes ==
    [][\A id \in OrderIds :
          Called("submit", id) => PublishedOneSubmitted("orders.submitted", id)
      ]_vars

\* C10 as amended: a submit_order call that returns Ok publishes exactly one
\* OrderSubmitted event on orders.submitted for the submitted order, and the
\* later verdict of the adapter's submit publishes and changes nothing; a
\* submit_order call that fails with NoRoutingConfigured or ExchangeNotFound
\* publishes nothing.
C10_AcceptedSubmitPublishes ==
    [][\A id \in OrderIds :
          /\ (Called("submit", id) /\ exec_last'.result = "Ok") =>
                PublishedOneSubmitted("orders.submitted", id)
          /\ (Called("submit", id) /\ exec_last'.result # "Ok") =>
                /\ exec_last'.result \in {"NoRoutingConfigured", "ExchangeNotFound"}
                /\ UNCHANGED <<subscribers, message_count>>
          /\ (spawned' # spawned /\ exec_last'.op = "adapter_submit") =>
                UNCHANGED <<subscribers, message_count, engineVars>>
      ]_vars

\* the adapter has just answered a spawned submit with an error, and the
\* subscriber of orders.submitted holds the one event of that order
C10_Witness ==
    /\ exec_last = Result("adapter_submit", 1, "Err")
    /\ "orders.submitted" \in DOMAIN subscribers
    /\ Len(subscribers["orders.submitted"]) = 1
    /\ Len(subscribers["orders.submitted"][1]) = 1
    /\ subscribers["orders.submitted"][1][1].payload.order.order_id = 1

PublishedOneFilled(fill) ==
    /\ message_count' = message_count + 1
    /\ DOMAIN subscribers' = DOMAIN subscribers
    /\ \A t \in DOMAIN subscribers :
          /\ Len(subscribers'[t]) = Len(subscribers[t])
          /\ \A i \in 1..Len(subscribers[t]) :
                LET before == subscribers[t][i]
                    after == subscribers'[t][i]
                IN IF t = "orders.filled"
                   THEN /\ Len(after) = Len(before) + 1
                        /\ SubSeq(after, 1, Len(before)) = before
                        /\ after[Len(after)].payload.type = "OrderFilled"
                        /\ after[Len(after)].payload.order_id = fill.order_id
                        /\ after[Len(after)].payload.fill = fill
                   ELSE after = before

\* what the claim says of a handle_fill of an order that was in the active
\* set as before
FillEffects(fill, before) ==
    LET id == fill.order_id
        after == Stored(order_cache', id)
        became_filled == after.filled_quantity >= after.quantity
    IN /\ exec_last'.result = "Ok"
       /\ IsStored(order_cache', id)
       /\ after.filled_quantity = before.filled_quantity + fill.quantity
       /\ after.commission = before.commission + fill.commission
       /\ after.quantity = before.quantity
       /\ after.status = IF became_filled THEN "Filled" ELSE "PartiallyFilled"
       /\ id \in DOMAIN active_orders' <=> ~became_filled
       /\ id \in DOMAIN active_orders' => active_orders'[id] = after
       /\ \A other \in DOMAIN active_orders \ {id} :
             /\ other \in DOMAIN active_orders'
             /\ active_orders'[other] = active_orders[other]
       /\ stats'.orders_filled =
              stats.orders_filled + (IF became_filled THEN 1 ELSE 0)
       /\ PublishedOneFilled(fill)

\* C33: handle_fill of an order in the active set adds the fill's quantity
\* and commission to the order, makes it Filled exactly when the new
\* filled_quantity reaches the quantity and PartiallyFilled otherwise, takes
\* it out of the active set and counts it in orders_filled exactly when it
\* became Filled, and publishes one OrderFilled event.
C33_HandleFillEffects ==
    [][\A fill \in Fills :
          (HandleFill(fill) /\ fill.order_id \in DOMAIN active_orders) =>
              FillEffects(fill, active_orders[fill.order_id])
      ]_vars

\* a second fill has just completed a partially filled order while a
\* subscriber listens on orders.filled
C33_Witness ==
    /\ exec_last = Result("fill", 1, "Ok")
    /\ stats.orders_filled = 1
    /\ stats.total_fill_volume = 2
    /\ stats.total_commission = 2
    /\ 1 \notin DOMAIN active_orders
    /\ IsStored(order_cache, 1)
    /\ Stored(order_cache, 1).status = "Filled"
    /\ Stored(order_cache, 1).filled_quantity = 2
    /\ "orders.filled" \in DOMAIN subscribers
    /\ Len(subscribers["orders.filled"][1]) = 2

\* a submit_order of id has just failed in the routing or adapter lookup
SubmitFailed(id) ==
    /\ Called("submit", id)
    /\ exec_last'.result \in {"NoRoutingConfigured", "ExchangeNotFound"}

\* the order of a failed submit_order is stored as Submitted in the order
\* cache, the active set and a strategy's list, uncounted and unpublished
StoredByFailedSubmit(id) ==
    /\ IsStored(order_cache', id)
    /\ Stored(order_cache', id).status = "Submitted"
    /\ id \in DOMAIN active_orders'
    /\ active_orders'[id] = Stored(order_cache', id)
    /\ LET sid == active_orders'[id].strategy_id
       IN /\ sid \in DOMAIN strategy_orders'
          /\ strategy_orders'[sid] # <<>>
          /\ strategy_orders'[sid][Len(strategy_orders'[sid])] = id
    /\ stats' = stats
    /\ UNCHANGED <<subscribers, message_count>>

\* this step is a handle_fill that completed order id
FillCompleted(id) ==
    /\ Called("fill", id)
    /\ exec_last'.result = "Ok"
    /\ Stored(order_cache', id).status = "Filled"

\* this step is a cancel_order of id that returned Ok
CancelSucceeded(id) ==
    /\ Called("cancel", id)
    /\ exec_last'.result = "Ok"
    /\ Stored(order_cache', id).status = "Cancelled"

\* this step took id out of the active set
LeftActiveSet(id) ==
    id \in DOMAIN active_orders /\ id \notin DOMAIN active_orders'

\* C39 as claimed: a submit_order that fails with NoRoutingConfigured or
\* ExchangeNotFound has stored the order as Submitted in the order cache, the
\* active set and the strategy's list, counts and publishes nothing, and the
\* order stays in the active set until a handle_fill completes it.  While
\* orders_submitted is 0 every active order is one whose submit failed.
C39_FailedSubmitStaysUntilFilled ==
    [][\A id \in OrderIds :
          /\ SubmitFailed(id) => StoredByFailedSubmit(id)
          /\ (stats.orders_submitted = 0 /\ LeftActiveSet(id)) =>
                FillCompleted(id)
      ]_vars

\* C39 as amended: a submit_order that fails with NoRoutingConfigured or
\* ExchangeNotFound has stored the order as Submitted in the order cache, the
\* active set and the strategy's list, counts and publishes nothing, and the
\* order, like every active order, leaves the active set only by a
\* handle_fill that completes it or by a cancel_order that returns Ok.
C39_FailedSubmitStaysUntilFilledOrCancelled ==
    [][\A id \in OrderIds :
          /\ SubmitFailed(id) => StoredByFailedSubmit(id)
          /\ LeftActiveSet(id) => (FillCompleted(id) \/ CancelSucceeded(id))
      ]_vars

\* an order whose submit failed for lack of routing has been cancelled after
\* routing and adapter were configured: no submit ever succeeded
C39_Witness ==
    /\ exec_last = Result("cancel", 1, "Ok")
    /\ stats.orders_submitted = 0
    /\ stats.orders_cancelled = 1
    /\ 1 \notin DOMAIN active_orders
    /\ IsStored(order_cache, 1)
    /\ Stored(order_cache, 1).status = "Cancelled"
    /\ strategy_orders[1] = <<1>>

\* C40: through submit_order, cancel_order and handle_fill a stored order's
\* status is only ever Submitted, PartiallyFilled, Filled or Cancelled,
\* orders_rejected stays 0, and the failure of the adapter's submit leaves
\* the order as it was.
C40_EngineStatuses ==
    /\ [](/\ \A order \in HeldOrders :
                order.status \in
                    {"Submitted", "PartiallyFilled", "Filled", "Cancelled"}
          /\ stats.orders_rejected = 0)
    /\ [][\A id \in OrderIds :
             (exec_last'.op = "adapter_submit" /\ exec_last'.order_id = id
                  /\ spawned' # spawned) =>
                 UNCHANGED <<order_cache, active_orders, stats>>
         ]_vars

\* the adapter has just failed the submit of order 1, which stays Submitted
\* and active, while order 2 is partially filled
C40_Witness ==
    /\ exec_last = Result("adapter_submit", 1, "Err")
    /\ 1 \in DOMAIN active_orders
    /\ active_orders[1].status = "Submitted"
    /\ Stored(order_cache, 1).status = "Submitted"
    /\ 2 \in DOMAIN active_orders
    /\ active_orders[2].status = "PartiallyFilled"
    /\ stats.orders_rejected = 0

(***************************************************************************)
(* Claims about the execution engine with overlapping calls.               *)
(***************************************************************************)
\* no call is in progress
Quiescent == \A t \in DOMAIN threads : threads[t].pc = "done"

Succeeded(op) == {t \in DOMAIN threads : threads[t].op = op /\ threads[t].result = "Ok"}

RECURSIVE FilledBy(_)
FilledBy(T) ==
    IF T = {} THEN 0
    ELSE LET t == CHOOSE x \in T : TRUE
         IN threads[t].fill[1].quantity + FilledBy(T \ {t})

\* C9: overlapping handle_fill and cancel_order calls for one order leave the
\* engine as some one-after-another run of them would; so, once the calls
\* have returned, the stored filled_quantity has the quantity of every fill
\* that returned Ok, and an order whose cancel returned Ok is not in the
\* active set.
C9_SerializedPerOrder ==
    Quiescent =>
        /\ Stored(order_cache, 1).filled_quantity
              = ConcOrder.filled_quantity + FilledBy(Succeeded("fill"))
        /\ Succeeded("cancel") # {} => 1 \notin DOMAIN active_orders

\* the state SpecConc starts in, as a state of the engine under SpecExec
ConcInitReached ==
    /\ order_cache \in CachePut(NewCache(OrderCacheMaxSize, Some(OrderCacheTtl), TRUE), OrderKey(1), ConcOrder, wall)
    /\ active_orders = MapPut(EmptyMap, 1, ConcOrder)
    /\ strategy_orders = StrategyOrdersAfterSubmit(EmptyMap, ConcOrder)
    /\ exchange_adapters = {"KRAKEN"}
    /\ routing_config = MapPut(EmptyMap, "ADAUSD.KRAKEN", "KRAKEN")
    /\ stats.orders_submitted = 1
    /\ message_count = 1
    /\ subscribers = EmptyMap
    /\ spawned = Spawn(EmptyMap, 1)
    /\ exec_last = Result("submit", 1, "Ok")
    /\ exec_calls = 1

(***************************************************************************)
(* Claims about the generic cache.                                         *)
(***************************************************************************)
\* this step is a call of op on the generic cache
CacheCalled(op) == cache_calls' = cache_calls + 1 /\ cache_last'.op = op

\* C12: whatever max_size is configured, size() <= max_size after any
\* sequence of put, get, remove and clear, and size() = 0 after clear.
C12_SizeWithinMax ==
    /\ CacheSize(generic_cache) <= generic_cache.config.max_size
    /\ cache_last.op = "clear" => CacheSize(generic_cache) = 0

\* C13: with statistics enabled, hits, misses, inserts and evictions never
\* decrease across get, put, contains, remove and clear.
C13_CountersMonotonic ==
    [][generic_cache.config.enable_statistics =>
          /\ generic_cache'.stats.hits >= generic_cache.stats.hits
          /\ generic_cache'.stats.misses >= generic_cache.stats.misses
          /\ generic_cache'.stats.inserts >= generic_cache.stats.inserts
          /\ generic_cache'.stats.evictions >= generic_cache.stats.evictions
      ]_vars

C34_OverwriteEvictsNothing ==
    [][\A key \in CacheKeys :
          (/\ CacheCalled("put")
           /\ cache_last'.key = key
           /\ key \in DOMAIN generic_cache.data
           /\ CacheSize(generic_cache) >= generic_cache.config.max_size) =>
              /\ DOMAIN generic_cache'.data = DOMAIN generic_cache.data
              /\ generic_cache'.stats.evictions = generic_cache.stats.evictions
              /\ generic_cache'.stats.inserts = generic_cache.stats.inserts
      ]_vars

\* the keys contains() answers true for
Contained(cache) == {key \in CacheKeys : CacheContains(cache, key, wall)}

\* this step is the k-th of k puts of distinct keys into the cache as
\* constructed, no time having passed
DistinctPut(key, k) ==
    /\ CacheCalled("put")
    /\ cache_last'.key = key
    /\ wall = 1
    /\ cache_calls = k - 1
    /\ \/ k = 1
       \/ k = 2 /\ cache_last.op = "put" /\ cache_last.key # key

\* C35: with statistics enabled the evicted entries are counted exactly:
\* every call changes size() by the inserts it counts less the evictions it
\* counts, less one for a remove that returns true, clear starting the
\* account again; and k distinct keys put into an empty cache of max_size
\* m < k leave size m, evictions k - m and exactly m of the keys contained.
C35_EvictionsCounted ==
    [][generic_cache.config.enable_statistics =>
          /\ IF CacheCalled("clear")
             THEN /\ CacheSize(generic_cache') = 0
                  /\ generic_cache'.stats.inserts = generic_cache'.stats.evictions
             ELSE CacheSize(generic_cache') - CacheSize(generic_cache) =
                      (generic_cache'.stats.inserts - generic_cache.stats.inserts)
                      - (generic_cache'.stats.evictions
                            - generic_cache.stats.evictions)
                      - (IF CacheCalled("remove") /\ cache_last'.flag
                         THEN 1 ELSE 0)
          /\ \A key \in CacheKeys, k \in 1..Cardinality(CacheKeys) :
                (DistinctPut(key, k) /\ generic_cache.config.max_size < k) =>
                    LET m == generic_cache.config.max_size
                    IN /\ CacheSize(generic_cache') = m
                       /\ generic_cache'.stats.evictions = k - m
                       /\ Cardinality(Contained(generic_cache')) = m
      ]_vars

(***************************************************************************)
(* Claims about the bar aggregator.                                        *)
(***************************************************************************)
Aggregation == aggregator.bar_type.bar_spec.aggregation

RECURSIVE SumOfSizes(_)
SumOfSizes(ticks) ==
    IF ticks = <<>> THEN 0 ELSE Head(ticks).size + SumOfSizes(Tail(ticks))

PricesOf(ticks) == {ticks[i].price : i \in 1..Len(ticks)}

\* the bar is the open, high, low, close and volume of the ticks
Aggregates(bar, ticks) ==
    /\ bar.open = ticks[1].price
    /\ bar.close = ticks[Len(ticks)].price
    /\ bar.high = MaxOf(PricesOf(ticks))
    /\ bar.low = MinOf(PricesOf(ticks))
    /\ bar.volume = SumOfSizes(ticks)

\* C15: in Tick(n) mode, n >= 1, update_with_trade returns a bar exactly on
\* every n-th tick, and the bar aggregates exactly the n ticks since the bar
\* before it.
C15_TickBars ==
    (Aggregation.kind = "Tick" /\ agg_fed > 0) =>
        /\ agg_out.result = "bar" <=> agg_fed % Aggregation.arg = 0
        /\ agg_out.result = "bar" =>
              /\ Len(agg_out.ticks) = Aggregation.arg
              /\ Aggregates(agg_out.bar[1], agg_out.ticks)

\* C16: in Volume(v) mode the bar closes on the tick that brings the open
\* bar's volume to v or more, the first tick of a bar included: no bar is
\* left open with a volume of v or more.
C16_VolumeBars ==
    Aggregation.kind = "Volume" => SumOfSizes(agg_open) < Aggregation.arg

NonDecreasing(ticks) ==
    \A i \in 1..(Len(ticks) - 1) : ticks[i].ts_event <= ticks[i + 1].ts_event

\* C17: a bar emitted in any mode for ticks of non-decreasing ts_event has
\* low <= open <= high, low <= close <= high, a volume at least the size of
\* each tick folded into it and a ts_event at least its first tick's.
C17_BarShape ==
    (agg_out.result = "bar" /\ NonDecreasing(agg_out.ticks)) =>
        LET bar == agg_out.bar[1]
        IN /\ bar.low <= bar.open /\ bar.open <= bar.high
           /\ bar.low <= bar.close /\ bar.close <= bar.high
           /\ \A i \in 1..Len(agg_out.ticks) : bar.volume >= agg_out.ticks[i].size
           /\ bar.ts_event >= agg_out.ticks[1].ts_event

\* a Time bar has just closed on three ticks whose prices went down and up
C17_Witness ==
    /\ agg_out.result = "bar"
    /\ Aggregation.kind = "Time"
    /\ NonDecreasing(agg_out.ticks)
    /\ Len(agg_out.ticks) = 3
    /\ agg_out.bar[1].low < agg_out.bar[1].open
    /\ agg_out.bar[1].low < agg_out.bar[1].close
    /\ agg_out.bar[1].ts_event > agg_out.ticks[1].ts_event

\* C37: in Time mode a trade tick whose ts_event is smaller than the open
\* bar's ts_start is folded into the open bar without error and does not
\* close it.
C37_LateTickFolded ==
    [][\A tick \in TradeTicks :
          (/\ BarUpdateWithTrade(tick)
           /\ Aggregation.kind = "Time"
           /\ aggregator.current_bar # None
           /\ tick.ts_event < aggregator.current_bar[1].ts_start) =>
              LET before == aggregator.current_bar[1]
              IN /\ agg_out'.result = "none"
                 /\ aggregator'.completed_bars = aggregator.completed_bars
                 /\ aggregator'.current_bar # None
                 /\ aggregator'.current_bar[1].ts_start = before.ts_start
                 /\ aggregator'.current_bar[1].tick_count = before.tick_count + 1
                 /\ aggregator'.current_bar[1].volume = before.volume + tick.size
                 /\ aggregator'.current_bar[1].close = tick.price
      ]_vars

(***************************************************************************)
(* Claims about the data engine.                                           *)
(***************************************************************************)
\* this step is a call of op on the data engine
DataCalled(op) == data_calls' = data_calls + 1 /\ data_last'.op = op

\* C18: start on a stopped engine makes it Running and returns Ok; start on
\* a running engine returns an error and leaves it Running, counters and all
\* else unchanged; stop leaves the engine Stopped, and changes nothing when
\* it was stopped already.
C18_StartStop ==
    [][/\ (DataCalled("start") /\ ~is_running) =>
             is_running' /\ data_last'.result = "Ok"
       /\ (DataCalled("start") /\ is_running) =>
             data_last'.result = "Err" /\ is_running' /\ UNCHANGED dataEngineVars
       /\ DataCalled("stop") => ~is_running'
       /\ (DataCalled("stop") /\ ~is_running) => UNCHANGED dataEngineVars
      ]_vars

\* start has just been rejected on a running engine that has processed ticks
C18_Witness ==
    /\ data_last.op = "start"
    /\ data_last.result = "Err"
    /\ is_running
    /\ processed_count = 2
    /\ data_stats.ticks_processed = 2

\* C19: while the engine is not Running, process_trade_tick and
\* process_quote_tick return an error and change no cache, no counter and no
\* aggregator.
C19_StoppedRejectsTicks ==
    [][((DataCalled("process_trade_tick") \/ DataCalled("process_quote_tick"))
          /\ ~is_running) =>
              data_last'.result = "Err" /\ UNCHANGED dataEngineVars
      ]_vars

\* a trade tick has just been rejected by an engine stopped after it
\* processed a tick into an aggregator's open bar
C19_Witness ==
    /\ data_last.op = "process_trade_tick"
    /\ data_last.result = "Err"
    /\ ~is_running
    /\ processed_count = 1
    /\ CacheSize(tick_cache) = 1
    /\ \E bt \in DOMAIN bar_aggregators : bar_aggregators[bt].current_bar # None

\* the bars a tick closes in the aggregators of its instrument
ClosedBy(tick) ==
    {out.bar[1] :
        out \in {o \in UNION {UpdateWithTrade(bar_aggregators[bt], tick) :
                                 bt \in {b \in DOMAIN bar_aggregators :
                                            b.instrument_id = tick.instrument_id}} :
                    o.bar # None}}

CachedBars(cache) == {cache.data[k].value : k \in DOMAIN cache.data}

\* C20: when a trade tick closes bars in the aggregators of its instrument,
\* process_trade_tick returns one of them, bars_generated grows by their
\* number, every one of them is in the bar cache afterwards, and the
\* aggregators of other instruments are as they were.
C20_AllClosedBarsCached ==
    [][\A tick \in DataTradeTicks :
          (/\ DataCalled("process_trade_tick")
           /\ data_last'.tick = Some(tick)
           /\ is_running
           /\ data_config.enable_bar_aggregation
           /\ ClosedBy(tick) # {}) =>
              /\ data_last'.result = "Ok"
              /\ data_last'.bar # None
              /\ data_last'.bar[1] \in ClosedBy(tick)
              /\ data_stats'.bars_generated =
                    data_stats.bars_generated + Cardinality(ClosedBy(tick))
              /\ ClosedBy(tick) \subseteq CachedBars(bar_cache')
              /\ \A bt \in DOMAIN bar_aggregators :
                    bt.instrument_id # tick.instrument_id =>
                        bar_aggregators'[bt] = bar_aggregators[bt]
      ]_vars

\* C21: the counters statistics() returns, ticks_processed and
\* bars_generated, never decrease over start, stop, process_trade_tick and
\* process_quote_tick calls, a stop followed by a new start included.
C21_DataCountersMonotonic ==
    [][/\ data_stats'.ticks_processed >= data_stats.ticks_processed
       /\ data_stats'.bars_generated >= data_stats.bars_generated
      ]_vars

(***************************************************************************)
(* Claims about the pattern message bus.                                   *)
(***************************************************************************)
\* the envelopes published to the topic after the first n publish calls
PublishedSince(topic, n) ==
    LET later == SubSeq(published, n + 1, Len(published))
        mine == SelectSeq(later, LAMBDA p : p.topic = topic)
    IN [i \in 1..Len(mine) |-> mine[i].envelope]

IsPrefix(s, t) == Len(s) <= Len(t) /\ s = SubSeq(t, 1, Len(s))

\* C22: for every subscriber whose receiver is alive, the envelopes it has
\* received followed by those waiting in its channel are the envelopes
\* published to its topic since it subscribed, each once and in publish
\* order: nothing of another topic and nothing published before it
\* subscribed.  A subscriber that dropped its receiver had received a prefix
\* of them.
C22_PubSubDelivery ==
    \A c \in DOMAIN channels :
        LET chan == channels[c]
            due == PublishedSince(chan.topic, chan.published_before)
        IN /\ chan.alive => chan.received \o chan.queue = due
           /\ ~chan.alive => IsPrefix(chan.received, due)

\* the first subscriber of a topic has received its first and third
\* envelope, the second one having gone to the other topic; the second
\* subscriber joined the topic after the first publish and has received the
\* third envelope only
C22_Witness ==
    /\ Len(channels) = 2
    /\ Len(published) = 3
    /\ channels[1].topic = channels[2].topic
    /\ published[2].topic # channels[1].topic
    /\ channels[2].published_before = 1
    /\ channels[1].received = <<published[1].envelope, published[3].envelope>>
    /\ channels[2].received = <<published[3].envelope>>

\* the live senders of a topic when publish is called
LiveSubscribers(topic) ==
    IF topic \in DOMAIN pub_sub_subs
    THEN {pub_sub_subs[topic][i] : i \in 1..Len(pub_sub_subs[topic])}
            \cap {c \in DOMAIN channels : channels[c].alive}
    ELSE {}

DeadSubscribers(topic) ==
    IF topic \in DOMAIN pub_sub_subs
    THEN {pub_sub_subs[topic][i] : i \in 1..Len(pub_sub_subs[topic])}
            \cap {c \in DOMAIN channels : ~channels[c].alive}
    ELSE {}

PublishCalled(topic) ==
    /\ Len(published') = Len(published) + 1
    /\ published'[Len(published')].topic = topic

\* C23: publish on a topic that has a subscriber whose receiver was dropped
\* returns Ok, appends the envelope to the channel of every live subscriber
\* of the topic, and adds the number of live subscribers, no more, to
\* total_messages_delivered.
C23_DeadSubscriberSkipped ==
    [][\A topic \in PatternTopics :
          (PublishCalled(topic) /\ DeadSubscribers(topic) # {}) =>
              /\ pattern_last'.op = "publish"
              /\ pattern_last'.result = "Ok"
              /\ \A c \in LiveSubscribers(topic) :
                    channels'[c].queue =
                        Append(channels[c].queue,
                               published'[Len(published')].envelope)
              /\ bus_stats'.total_messages_delivered =
                    bus_stats.total_messages_delivered
                        + Cardinality(LiveSubscribers(topic))
      ]_vars

\* a publish has just been made on a topic with one dropped and one live
\* subscriber: one delivery was counted and one failed
C23_Witness ==
    /\ pattern_last.op = "publish"
    /\ Len(published) >= 1
    /\ published[Len(published)].delivered = 1
    /\ published[Len(published)].failed = 1
    /\ bus_stats.total_messages_delivered = 1
    /\ \E c \in DOMAIN channels :
          /\ channels[c].alive
          /\ channels[c].queue = <<published[Len(published)].envelope>>

\* the handler channel made by the latest register_handler for the target
LatestHandler(target) ==
    MaxOf({h \in DOMAIN handlers : handlers[h].target = target})

RequestCalled(target) ==
    /\ Len(requests') = Len(requests) + 1
    /\ requests'[Len(requests')].target = target

\* request r returns in this step
Returns(r) == Pending(r) /\ requests'[r].outcome # "pending"

\* the request goes to the latest handler registered for its target and to
\* no other, and fails at once when the target has none
RequestRouted ==
    \A target \in PatternTargets :
        RequestCalled(target) =>
            LET r == Len(requests')
            IN /\ \A h \in DOMAIN handlers :
                     handlers'[h] # handlers[h] =>
                        /\ h = LatestHandler(target)
                        /\ handlers'[h].queue = Append(handlers[h].queue, r)
               /\ target \notin DOMAIN req_resp_handlers =>
                     /\ requests'[r].outcome = "Err"
                     /\ handlers' = handlers
               /\ requests'[r].outcome = "pending" =>
                     handlers'[LatestHandler(target)] #
                        handlers[LatestHandler(target)]

\* C24 as stated: a request handed to a handler returns the handler's reply
\* or fails with the timeout error.
C24_ReplyOrTimeout ==
    [][/\ RequestRouted
       /\ \A r \in DOMAIN requests :
             Returns(r) =>
                \/ /\ requests'[r].outcome = "Ok"
                   /\ requests'[r].reply # None
                \/ /\ requests'[r].outcome = "Err"
                   /\ requests'[r].msg = "Request timeout"
      ]_vars

\* C24, amended: a target has one handler, the latest registered, and it
\* alone receives later requests; a request for a target without a handler
\* fails at once; a request handed to a handler returns the reply when the
\* handler sends one while the request waits, fails with "Request timeout"
\* when the timeout elapses while the oneshot sender is still queued or
\* held, and fails with "Response channel closed" when the oneshot sender is
\* dropped without a reply.
C24_RequestOutcomes ==
    [][/\ RequestRouted
       /\ \A r \in DOMAIN requests :
             Returns(r) =>
                \/ /\ requests'[r].outcome = "Ok"
                   /\ requests[r].responder = "held"
                   /\ requests'[r].responder = "used"
                   /\ requests'[r].reply =
                         Some(MessageEnvelope(MaxRequests + r, "TestResponse"))
                \/ /\ requests'[r].outcome = "Err"
                   /\ requests'[r].msg = "Request timeout"
                   /\ requests'[r].responder = requests[r].responder
                   /\ requests[r].responder \in {"queued", "held"}
                \/ /\ requests'[r].outcome = "Err"
                   /\ requests'[r].msg = "Response channel closed"
                   /\ requests'[r].responder = "dropped"
       /\ \A r \in DOMAIN requests :
             (Pending(r) /\ requests'[r].responder = "used") =>
                 requests'[r].outcome = "Ok"
      ]_vars

\* register_handler was called twice for one target; the first request was
\* received by the second handler and returned its reply, the second
\* request timed out
C24_Witness ==
    /\ Len(handlers) = 2
    /\ handlers[1].target = handlers[2].target
    /\ Len(requests) = 2
    /\ requests[1].handler = 2
    /\ handlers[2].received = <<1>>
    /\ requests[1].outcome = "Ok"
    /\ requests[2].outcome = "Err"
    /\ requests[2].msg = "Request timeout"

(***************************************************************************)
(* Claims about the strategy engine.                                       *)
(***************************************************************************)
\* this step is a call of op on the strategy engine
StrategyCalled(op) ==
    strategy_calls' = strategy_calls + 1 /\ strategy_last'.op = op

\* the strategies the dispatcher op is to call for an event of the instrument
Eligible(op, instrument_id) ==
    IF op \in {"process_trade_tick", "process_quote_tick"}
    THEN TickEligible(instrument_id)
    ELSE ActiveEligible

Dispatchers ==
    {"process_trade_tick", "process_quote_tick", "process_bar", "process_timer"}

\* C25: when the engine is running and a strategy's callback returns an
\* error in a dispatch call, every other eligible strategy still receives
\* the event in that call, and the call returns the error.
C25_ErrorDoesNotAbortDispatch ==
    [][\A op \in Dispatchers :
          (/\ StrategyCalled(op)
           /\ strategy_engine_running
           /\ \E id \in SeqRange(strategy_last'.invoked) :
                 id \in strategy_last'.failing) =>
              /\ strategy_last'.result = "Err"
              /\ SeqRange(strategy_last'.invoked) =
                    Eligible(op, strategy_last'.instrument_id)
      ]_vars

\* C26: a tick dispatch on a running engine calls the callback of exactly
\* the strategies whose state is Running and whose config.instruments
\* contains the tick's instrument; while the engine is not running the four
\* dispatchers call no callback and return Ok.
C26_DispatchFilter ==
    [][/\ \A op \in {"process_trade_tick", "process_quote_tick"} :
             (StrategyCalled(op) /\ strategy_engine_running) =>
                 SeqRange(strategy_last'.invoked) =
                    TickEligible(strategy_last'.instrument_id)
       /\ \A op \in Dispatchers :
             (StrategyCalled(op) /\ ~strategy_engine_running) =>
                 /\ strategy_last'.invoked = <<>>
                 /\ strategy_last'.result = "Ok"
      ]_vars

\* C27: after stop on a running engine every registered strategy is Stopped
\* and on_stop has been called on each of them, also when an on_stop
\* returns an error; stop on an engine that is not running returns Ok and
\* changes nothing.
C27_StopStopsAll ==
    [][/\ (StrategyCalled("stop") /\ strategy_engine_running) =>
             \A id \in DOMAIN strategies :
                /\ strategies'[id].state = "Stopped"
                /\ id \in SeqRange(strategy_last'.invoked)
       /\ (StrategyCalled("stop") /\ ~strategy_engine_running) =>
             /\ strategy_last'.result = "Ok"
             /\ UNCHANGED <<strategies, strategy_engine_running,
                            total_strategies, active_strategies>>
      ]_vars

(***************************************************************************)
(* Claims about the typed cache.                                           *)
(***************************************************************************)
\* the last n elements of s, or all of s when it has fewer
LastN(s, n) == IF n >= Len(s) THEN s ELSE SubSeq(s, Len(s) - n + 1, Len(s))

TypedCalled(op) == typed_calls' = typed_calls + 1 /\ typed_last'.op = op

\* every deque holds at most max_items_per_type ticks, the most recently
\* added ones of its instrument in the order they were added
DequesHoldNewest ==
    \A id \in DOMAIN quotes :
        /\ Len(quotes[id]) <= max_items
        /\ quotes[id] = LastN(quotes_added[id], max_items)

\* an add that overflows the deque drops the oldest tick and counts one
\* eviction; any other add counts none
AddEvictsOldest ==
    \A id \in QuoteInstruments :
        (TypedCalled("add_quote_tick") /\ typed_last'.instrument_id = id) =>
            LET before == EntryOrEmpty(quotes, id)
                tick == quotes_added'[id][Len(quotes_added'[id])]
            IN IF Len(before) + 1 > max_items
               THEN /\ quotes'[id] = Tail(Append(before, tick))
                    /\ typed_stats'.evictions = typed_stats.evictions + 1
               ELSE /\ quotes'[id] = Append(before, tick)
                    /\ typed_stats'.evictions = typed_stats.evictions

\* get_quotes(id, Some(k)) returns the min(k, length) most recently added
\* ticks, newest first
GetReturnsNewestFirst ==
    \A id \in QuoteInstruments, k \in 0..MaxLimit :
        (/\ TypedCalled("get_quotes")
         /\ typed_last'.instrument_id = id
         /\ typed_last'.limit = Some(k)) =>
            LET held == EntryOrEmpty(quotes, id)
                n == IF k < Len(held) THEN k ELSE Len(held)
            IN /\ Len(typed_last'.result) = n
               /\ \A i \in 1..n :
                     typed_last'.result[i] = held[Len(held) + 1 - i]
               /\ typed_last'.result =
                     Reverse(LastN(EntryOrEmpty(quotes_added, id), n))

\* C28: after any sequence of add_quote_tick calls each instrument's deque
\* holds at most max_items_per_type ticks, the most recently added ones; an
\* add that overflows drops the oldest tick and adds one to evictions; and
\* get_quotes(id, Some(k)) returns the min(k, length) most recently added
\* ticks, newest first.
C28_QuoteDeques ==
    /\ []DequesHoldNewest
    /\ [][AddEvictsOldest /\ GetReturnsNewestFirst]_vars

\* three ticks were added for an instrument of a cache that keeps two, the
\* first was evicted, and get_quotes(id, Some(1)) has returned the third
C28_Witness ==
    /\ max_items = 2
    /\ typed_last.op = "get_quotes"
    /\ typed_last.limit = Some(1)
    /\ typed_last.instrument_id \in DOMAIN quotes_added
    /\ Len(quotes_added[typed_last.instrument_id]) = 3
    /\ quotes_added[typed_last.instrument_id][1] #
          quotes_added[typed_last.instrument_id][2]
    /\ typed_stats.evictions = 1
    /\ typed_last.result = <<quotes_added[typed_last.instrument_id][3]>>

\* the number of times x occurs in the sequence s
Occurrences(s, x) == Cardinality({i \in 1..Len(s) : s[i] = x})

\* C29: after any sequence of add_instrument and clear calls the venue index
\* agrees with the primary map: every instrument id of the primary map
\* occurs exactly once under its venue, and every id in the index is in the
\* primary map.
C29_VenueIndexConsistent ==
    /\ \A id \in DOMAIN cache_instruments :
          LET venue == cache_instruments[id].venue
          IN /\ venue \in DOMAIN cache_index.instruments_by_venue
             /\ Occurrences(cache_index.instruments_by_venue[venue], id) = 1
    /\ \A venue \in DOMAIN cache_index.instruments_by_venue :
          \A i \in 1..Len(cache_index.instruments_by_venue[venue]) :
             cache_index.instruments_by_venue[venue][i]
                \in DOMAIN cache_instruments

(***************************************************************************)
(* Claims about Price.                                                     *)
(***************************************************************************)
\* C30: every Price obtained from Price::new, checked_add, checked_sub or
\* checked_mul_f64 has a strictly positive raw value, and an operation
\* whose true result is zero or negative returns failure.
C30_PricePositive ==
    /\ price_a # None => price_a[1] > 0
    /\ price_b # None => price_b[1] > 0
    /\ price_last.exact <= 0 => price_last.outcome \notin {"Ok", "Some"}

\* what the claim allows as the outcome of a constructor called with raw and
\* precision at the given scale: failure, or the exact scaled value
ExactOrFailure(out, raw, precision, scale) ==
    /\ out.outcome \in {"Ok", "Err"}
    /\ out.outcome = "Ok" => out.value = raw * Pow(10, scale - precision)
    /\ precision > scale => out.outcome = "Err"

\* C31: Price::new and Quantity::new return the value whose raw field is
\* raw * 10^(scale - precision) exactly, or return a failure: a product that
\* does not fit gives a failure and never a wrapped value, and a precision
\* above the scale gives a failure.
C31_NewExactOrFailure ==
    [][/\ \A raw \in RawInputs, precision \in PrecisionInputs :
            PriceNewCall(raw, precision) =>
                ExactOrFailure(price_last', raw, precision, PricePrecision)
       /\ \A raw \in QuantityRawInputs, precision \in QuantityPrecisionInputs :
            QuantityNewCall(raw, precision) =>
                ExactOrFailure(quantity_last', raw, precision,
                               QuantityPrecision)]_vars

(***************************************************************************)
(* Claims about the ring of completed bars.                                *)
(***************************************************************************)
\* the completed bars are the most recent ones emitted, and get_recent_bars
\* returns the most recent n of them, oldest first
RingHoldsNewest ==
    /\ aggregator.completed_bars = LastN(bars_emitted, MaxCompletedBars)
    /\ \A n \in 0..(MaxCompletedBars + 1) :
          GetRecentBars(aggregator, n) =
              LastN(bars_emitted, Min2(n, MaxCompletedBars))

\* a call emits at most one bar, stamped with the tick that triggered it and
\* leaving no open bar; a tick fed with no bar open opens one from itself
OneBarPerTick ==
    \A tick \in RingTicks :
        RingUpdateWithTrade(tick) =>
            /\ Len(bars_emitted') \in {Len(bars_emitted), Len(bars_emitted) + 1}
            /\ SubSeq(bars_emitted', 1, Len(bars_emitted)) = bars_emitted
            /\ Len(bars_emitted') = Len(bars_emitted) + 1 =>
                  /\ bars_emitted'[Len(bars_emitted')].ts_event = tick.ts_event
                  /\ agg_out'.bar = Some(bars_emitted'[Len(bars_emitted')])
                  /\ aggregator'.current_bar = None
            /\ aggregator.current_bar = None =>
                  /\ aggregator'.current_bar # None
                  /\ aggregator'.current_bar[1].open = tick.price
                  /\ aggregator'.current_bar[1].high = tick.price
                  /\ aggregator'.current_bar[1].low = tick.price
                  /\ aggregator'.current_bar[1].close = tick.price
                  /\ aggregator'.current_bar[1].volume = tick.size

\* C38: each update_with_trade call emits at most one bar; an emitted bar
\* has the triggering tick's ts_event and leaves no open partial bar, the
\* next tick opens a fresh bar with open = high = low = close = its price and
\* volume = its size, and the aggregator retains the most recent completed
\* bars up to the cap, which get_recent_bars(n) returns oldest first.
C38_OneBarPerTickAndRing == []RingHoldsNewest /\ [][OneBarPerTick]_vars

\* a third bar has been emitted into a ring of two, pushing the first out,
\* and a tick has opened a fresh bar after it
C38_Witness ==
    /\ Len(bars_emitted) = MaxCompletedBars + 1
    /\ bars_emitted[1] \notin
           {aggregator.completed_bars[i] : i \in 1..Len(aggregator.completed_bars)}
    /\ aggregator.completed_bars[1] # aggregator.completed_bars[2]
    /\ aggregator.current_bar # None
    /\ aggregator.current_bar[1].tick_count = 1

(***************************************************************************)
(* Claims about OrderId.                                                   *)
(***************************************************************************)
\* C32: OrderId::new allocates from one counter starting at 1: whatever the
\* interleaving of the callers, no two calls get the same id and the ids
\* are strictly increasing in allocation order.
C32_OrderIdsUnique ==
    /\ order_ids_allocated # <<>> => order_ids_allocated[1] = CounterStart
    /\ \A i, j \in 1..Len(order_ids_allocated) :
          i < j => order_ids_allocated[i] < order_ids_allocated[j]
    /\ \A i, j \in 1..Len(order_ids_returned) :
          i # j => order_ids_returned[i].id # order_ids_returned[j].id
    /\ \A t, u \in IdThreads :
          (t # u /\ order_id_fetched[t] # None) =>
              order_id_fetched[t] # order_id_fetched[u]

\* two calls overlapped, and the one that fetched second returned first
C32_Witness ==
    /\ Len(order_ids_returned) >= 2
    /\ order_ids_returned[1].id > order_ids_returned[2].id
    /\ order_ids_returned[1].thread # order_ids_returned[2].thread

(***************************************************************************)
(* The specifications.                                                     *)
(***************************************************************************)
Init ==
    /\ BookInit /\ ExecInit /\ CacheDefault /\ BarsIdle /\ DataIdle
    /\ PatternInit /\ StrategyInit /\ TypedIdle /\ PriceInit
    /\ IdsInit

SpecBook == Init /\ [][BookNext]_vars

SpecExec == Init /\ [][ExecNext]_vars

InitConc ==
    /\ BookInit /\ CacheDefault /\ BarsIdle /\ ConcInit /\ DataIdle
    /\ PatternInit /\ StrategyInit /\ TypedIdle /\ PriceInit
    /\ IdsInit

SpecConc == InitConc /\ [][ConcNext]_vars

InitCache ==
    /\ BookInit /\ ExecInit /\ CacheInit /\ BarsIdle /\ DataIdle
    /\ PatternInit /\ StrategyInit /\ TypedIdle /\ PriceInit
    /\ IdsInit

SpecCache == InitCache /\ [][CacheNext]_vars

InitBars ==
    /\ BookInit /\ ExecInit /\ CacheDefault /\ BarsInit /\ DataIdle
    /\ PatternInit /\ StrategyInit /\ TypedIdle /\ PriceInit
    /\ IdsInit

SpecBars == InitBars /\ [][BarsNext]_vars

InitData ==
    /\ BookInit /\ ExecInit /\ CacheDefault /\ BarsIdle /\ DataInit
    /\ PatternInit /\ StrategyInit /\ TypedIdle /\ PriceInit
    /\ IdsInit

SpecData == InitData /\ [][DataNext]_vars

InitRing ==
    /\ BookInit /\ ExecInit /\ CacheDefault /\ RingInit /\ DataIdle
    /\ PatternInit /\ StrategyInit /\ TypedIdle /\ PriceInit
    /\ IdsInit

SpecRing == InitRing /\ [][RingNext]_vars

SpecPubSub == Init /\ [][PubSubNext]_vars

SpecReqResp == Init /\ [][ReqRespNext]_vars

SpecStrategy == Init /\ [][StrategyNext]_vars

InitTyped ==
    /\ BookInit /\ ExecInit /\ CacheDefault /\ BarsIdle /\ DataIdle
    /\ PatternInit /\ StrategyInit /\ TypedInit /\ PriceInit
    /\ IdsInit

SpecTyped == InitTyped /\ [][TypedNext]_vars

SpecPrice == Init /\ [][PriceNext]_vars

SpecIds == Init /\ [][IdsNext]_vars
====
